---- MODULE Spec2Model ----
(***************************************************************************)
(* The Pony template parser (src/src/syntax): the JSX-like markup parser   *)
(* of jsx.rs, the interpolation parser of mustache.rs and the Svelte-like  *)
(* block parsers of svelte/blocks, as a state machine over a token         *)
(* sequence.  The recursive descent is an explicit stack of frames, one    *)
(* per active parse function; every loop iteration and every lookahead     *)
(* decision of the source is one step.                                     *)
(*                                                                         *)
(* Tokens are strings.  A brace group is one token tree, as in             *)
(* proc_macro2; the tokens inside it are given by Inner.  The cursor is    *)
(* the 1-based index of the next token; a fork is a second index.          *)
(***************************************************************************)
EXTENDS Integers, Sequences, FiniteSets, TLC

VARIABLES
    tokens,      \* the input token sequence (never changes)
    entry,       \* the type handed to syn::parse_str (never changes)
    pos,         \* the real cursor: index of the next token of `input`
    stack,       \* the active parse functions, innermost last
    nodes,       \* every AST node built so far
    root,        \* the node returned by the entry parser, once it returned
    result,      \* the outcome of the whole parse
    unexpected   \* syn's "unexpected token" cell of the real cursor

vars == <<tokens, entry, pos, stack, nodes, root, result, unexpected>>

----------------------------------------------------------------------------
(* Bounds of the model.                                                    *)

\* The longest body of an input, counted in parts (see the inputs below).
MaxParts == 3

\* The longest body of an If block given in full, counted in parts.
MaxDividerParts == 5

\* The children that consume nothing after which a loop is no longer followed.
MaxIdle == 2

----------------------------------------------------------------------------
(* Tokens.                                                                 *)

\* Identifiers (syn::Ident) of the outer token stream.
Idents == {"a", "b"}

\* The brace groups of the model and the tokens inside each of them.
Inner(g) ==
    CASE g = "{e}"            -> <<"e">>
      [] g = "{..e}"          -> <<"..", "e">>
      [] g = "{#if e}"        -> <<"#", "if", "e">>
      [] g = "{:else if e}"   -> <<":", "else", "if", "e">>
      [] g = "{:else}"        -> <<":", "else">>
      [] g = "{/if}"          -> <<"/", "if">>
      [] g = "{#match e}"     -> <<"#", "match", "e">>
      [] g = "{:case p}"      -> <<":", "case", "p">>
      [] g = "{:case p if e}" -> <<":", "case", "p", "if", "e">>
      [] g = "{:case p e}"    -> <<":", "case", "p", "e">>
      [] g = "{/match}"       -> <<"/", "match">>
      [] g = "{#for e}"       -> <<"#", "for", "e">>
      [] OTHER                -> <<>>

Groups ==
    {"{e}", "{..e}", "{#if e}", "{:else if e}", "{:else}", "{/if}",
     "{#match e}", "{:case p}", "{:case p if e}", "{:case p e}", "{/match}",
     "{#for e}"}

\* The token at index i of the input; "EOF" past its end.
At(i) == IF i \in 1..Len(tokens) THEN tokens[i] ELSE "EOF"

\* The token at index i inside a group; "EOF" past its end.
In(inner, i) == IF i \in 1..Len(inner) THEN inner[i] ELSE "EOF"

IsBrace(t) == t \in Groups
IsIdent(t) == t \in Idents
IsEmpty(p) == p > Len(tokens)

----------------------------------------------------------------------------
(* The collaborators: syn's expression, pattern and path parsers.          *)

\* syn::Expr on the tokens inside a group, from index i: the index after
\* the expression, or 0 when there is no expression there.  An identifier
\* is an expression; `..e` and a bare `..` are range expressions.
ExprEnd(inner, i) ==
    IF In(inner, i) \in {"e", "p"} THEN i + 1
    ELSE IF In(inner, i) = ".."
         THEN (IF In(inner, i + 1) \in {"e", "p"} THEN i + 2 ELSE i + 1)
         ELSE 0

\* syn::Pat::parse_multi_with_leading_vert: an identifier is a pattern.
PatEnd(inner, i) == IF In(inner, i) \in {"e", "p"} THEN i + 1 ELSE 0

Ok(p) == [ok |-> TRUE, pos |-> p, msg |-> "", left |-> FALSE]
Fail(p, m) == [ok |-> FALSE, pos |-> p, msg |-> m, left |-> FALSE]

\* The segments of a path after its first: `::` and an identifier, repeated
\* (syn::Path::parse_rest).
RECURSIVE parse_rest(_, _)
parse_rest(q, segs) ==
    IF At(q) = "::"
    THEN IF IsIdent(At(q + 1))
         THEN parse_rest(q + 2, Append(segs, At(q + 1)))
         ELSE [ok |-> FALSE, pos |-> q + 1, msg |-> "expected identifier",
               segs |-> segs]
    ELSE [ok |-> TRUE, pos |-> q, msg |-> "", segs |-> segs]

\* ElementName as a single identifier (syn::Ident in place of syn::Path):
\* with it no `::` path is a name.
ElementName_IdentOnly(p) ==
    IF IsIdent(At(p))
    THEN [ok |-> TRUE, pos |-> p + 1, msg |-> "", segs |-> <<At(p)>>]
    ELSE [ok |-> FALSE, pos |-> p, msg |-> "expected identifier",
          segs |-> <<>>]

\* syn::Path (ElementName): an optional leading `::`, then identifiers
\* separated by `::`.  The inputs of the model hold no generic arguments.
ElementName(p) ==
    LET first(q) ==
            IF IsIdent(At(q))
            THEN parse_rest(q + 1, <<At(q)>>)
            ELSE [ok |-> FALSE, pos |-> q, msg |-> "expected identifier",
                  segs |-> <<>>]
    IN  first(IF At(p) = "::" THEN p + 1 ELSE p)

----------------------------------------------------------------------------
(* Brace groups parsed field by field (derive_syn_parse, #[inside(brace)]).*)

\* guard_parse: nothing left in the group gives None; otherwise `if` and an
\* expression give Some.  end is the index after the guard, 0 on an error.
guard_parse(inner, i) ==
    IF i > Len(inner) THEN [end |-> i, some |-> FALSE]
    ELSE IF In(inner, i) = "if"
    THEN [end |-> ExprEnd(inner, i + 1), some |-> TRUE]
    ELSE [end |-> 0, some |-> FALSE]

\* The fields of CaseDivider after `:` `case`: the pattern, then the guard.
CaseFields(inner, i) ==
    LET guard(e) ==
            IF e = 0 THEN [end |-> 0, some |-> FALSE]
            ELSE guard_parse(inner, e)
    IN  guard(PatEnd(inner, i))

\* The literal tokens lits, then the tail ("none", "expr" or "case"), inside
\* the group at p.  left: tokens remain in the group after the last field.
BraceFields(p, lits, tail) ==
    IF ~IsBrace(At(p)) THEN Fail(p, "expected curly braces")
    ELSE LET fields(inner, n) ==
                 IF \E j \in 1..n : In(inner, j) # lits[j]
                 THEN 0
                 ELSE CASE tail = "expr" -> ExprEnd(inner, n + 1)
                        [] tail = "case" -> CaseFields(inner, n + 1).end
                        [] OTHER -> n + 1
             done(inner, e) ==
                 IF e = 0 THEN Fail(p, "expected token")
                 ELSE [ok |-> TRUE, pos |-> p + 1, msg |-> "",
                       left |-> e <= Len(inner)]
         IN  done(Inner(At(p)), fields(Inner(At(p)), Len(lits)))

\* inside_braces without the fork: braced! on the cursor itself, which
\* takes the group.
inside_braces_NoFork(p) ==
    [ok |-> IsBrace(At(p)), inner |-> Inner(At(p)),
     cur |-> IF IsBrace(At(p)) THEN p + 1 ELSE p]

\* inside_braces: the contents of the group that is next on a fork of the
\* cursor, or an error; cur is the real cursor afterwards.
inside_braces(p) ==
    [ok |-> IsBrace(At(p)), inner |-> Inner(At(p)), cur |-> p]

----------------------------------------------------------------------------
(* formatting.rs: the format spec.  A token of a format spec is the        *)
(* sequence of the characters it is written with (what to_string() gives): *)
(* `05` is <<"0", "5">>, `6.5` is <<"6", ".", "5">>, `<` is <<"<">>.  Each  *)
(* parser takes the tokens ts and an index i into them.                    *)

Digits == {"0", "2", "5", "6"}

FormatIdents == {<<"x">>, <<"X">>, <<"o">>}

\* The token at index i; the empty sequence past the end.
Tok(ts, i) == IF i \in 1..Len(ts) THEN ts[i] ELSE <<>>

\* input.peek(syn::LitInt), and what LitInt::new accepts: decimal digits
\* with `_` between or after them, or the base prefix `0x` and digits.  The
\* tokens of the model have no exponent or suffix.
IsLitInt(t) ==
    /\ t # <<>>
    /\ t[1] \in Digits
    /\ \/ \A k \in DOMAIN t : t[k] \in Digits \cup {"_"}
       \/ /\ Len(t) >= 3
          /\ t[1] = "0"
          /\ t[2] = "x"
          /\ \A k \in 3..Len(t) : t[k] \in Digits

\* input.peek(syn::LitFloat): digits, one `.`, digits (possibly none).
IsLitFloat(t) ==
    /\ Len(t) >= 2
    /\ t[1] \in Digits
    /\ Cardinality({k \in DOMAIN t : t[k] = "."}) = 1
    /\ \A k \in DOMAIN t : t[k] \in Digits \cup {"."}

IsLitChar(t) == Len(t) = 3 /\ t[1] = "'" /\ t[3] = "'"

IsFormatIdent(t) == t \in FormatIdents

\* A field parsed (val, the cursor now at pos), an error, or a panic.
Parsed(i, val) ==
    [ok |-> TRUE, pos |-> i, msg |-> "", val |-> val, panic |-> FALSE]
NotParsed(i, m) ==
    [ok |-> FALSE, pos |-> i, msg |-> m, val |-> <<>>, panic |-> FALSE]
Panicked(i, m) ==
    [ok |-> FALSE, pos |-> i, msg |-> m, val |-> <<>>, panic |-> TRUE]

\* Align::peek: `<`, `^` or `>` is the next token or the one after it.
Align_peek(ts, i) ==
    \/ Tok(ts, i) \in {<<"<">>, <<"^">>, <<">">>}
    \/ Tok(ts, i + 1) \in {<<"<">>, <<"^">>, <<">">>}

\* AlignDirection.
AlignDirection(ts, i) ==
    IF Tok(ts, i) = <<">">> THEN Parsed(i + 1, <<"Right">>)
    ELSE IF Tok(ts, i) = <<"^">> THEN Parsed(i + 1, <<"Center">>)
    ELSE IF Tok(ts, i) = <<"<">> THEN Parsed(i + 1, <<"Left">>)
    ELSE NotParsed(i, "expected one of: >, ^, <")

\* Whatever token stands before the direction taken as the fill.
Align_AnyFill(ts, i) ==
    LET direction(d, fill) ==
            IF d.ok THEN Parsed(d.pos, d.val \o fill) ELSE d
    IN  IF ~AlignDirection(ts, i).ok /\ Tok(ts, i) # <<>>
        THEN direction(AlignDirection(ts, i + 1), Tok(ts, i))
        ELSE direction(AlignDirection(ts, i), <<>>)

\* Align: an optional character literal (the fill), then the direction.
\* The value is the direction followed by the fill.
Align(ts, i) ==
    LET direction(d, fill) ==
            IF d.ok THEN Parsed(d.pos, d.val \o fill) ELSE d
    IN  IF IsLitChar(Tok(ts, i))
        THEN direction(AlignDirection(ts, i + 1), Tok(ts, i))
        ELSE direction(AlignDirection(ts, i), <<>>)

Sign_peek(ts, i) == Tok(ts, i) \in {<<"+">>, <<"-">>}

Sign(ts, i) ==
    IF Tok(ts, i) = <<"+">> THEN Parsed(i + 1, <<"Positive">>)
    ELSE IF Tok(ts, i) = <<"-">> THEN Parsed(i + 1, <<"Negative">>)
    ELSE NotParsed(i, "Expected + or - here!")

Pretty_peek(ts, i) == Tok(ts, i) = <<"#">>

Pretty(ts, i) ==
    IF Tok(ts, i) = <<"#">> THEN Parsed(i + 1, <<"Pretty">>)
    ELSE NotParsed(i, "expected #")

\* Count: an integer, or a parameter `name$`.
Count(ts, i) ==
    IF IsLitInt(Tok(ts, i)) THEN Parsed(i + 1, <<"Integer">> \o Tok(ts, i))
    ELSE IF IsFormatIdent(Tok(ts, i)) /\ Tok(ts, i + 1) = <<"$">>
    THEN Parsed(i + 2, <<"Parameter">> \o Tok(ts, i))
    ELSE NotParsed(i, "Expected either integer or parameter var$ here")

\* `*` not taken as a precision.
Precision_CountOnly(ts, i) == Count(ts, i)

\* Precision: `*`, or a Count.
Precision(ts, i) ==
    IF Tok(ts, i) = <<"*">> THEN Parsed(i + 1, <<"Star">>) ELSE Count(ts, i)

Numbers_peek(ts, i) == IsLitInt(Tok(ts, i)) \/ IsLitFloat(Tok(ts, i))

\* The digits taken as the width whatever they start with.
LeadingZero_WidthOnly(s, precision, i) ==
    Parsed(i, [zero |-> FALSE, width |-> s, precision |-> precision])

\* The literal `0` alone taken as the Zero flag too, with nothing left for
\* the width.
LeadingZero_AnyZero(s, precision, i) ==
    IF Len(s) > 1 /\ s[1] = "0" /\ s[2] = "0"
    THEN NotParsed(i, "Expected maximum one leading 0 here")
    ELSE IF s[1] = "0"
    THEN Parsed(i, [zero |-> TRUE, width |-> Tail(s),
                    precision |-> precision])
    ELSE Parsed(i, [zero |-> FALSE, width |-> s, precision |-> precision])

\* What Numbers::parse does with the text s of the width once the
\* precision is known: two leading zeros are an error, one is the Zero flag
\* and the rest the width, none gives the width alone.  The rest is wrapped
\* with LitInt::new(&s[1..], ..), which panics on a text that is not an
\* integer literal.  The cursor is at i.
LeadingZero(s, precision, i) ==
    IF Len(s) > 1 /\ s[1] = "0" /\ s[2] = "0"
    THEN NotParsed(i, "Expected maximum one leading 0 here")
    ELSE IF Len(s) > 1 /\ s[1] = "0"
    THEN IF IsLitInt(Tail(s))
         THEN Parsed(i, [zero |-> TRUE, width |-> Tail(s),
                         precision |-> precision])
         ELSE Panicked(i, "Not an integer literal")
    ELSE Parsed(i, [zero |-> FALSE, width |-> s, precision |-> precision])

\* float_s.split_once('.'): the index of the first `.`, 0 when there is
\* none.
DotAt(t) ==
    IF \E k \in DOMAIN t : t[k] = "."
    THEN CHOOSE k \in DOMAIN t :
             t[k] = "." /\ \A j \in 1..(k - 1) : t[j] # "."
    ELSE 0

\* Numbers::parse.  An integer: the precision is what follows a `.` after
\* it.  A float: the digits after its `.` are the precision; when there
\* are none the precision is parsed from the tokens after the literal.
Numbers(ts, i) ==
    LET int(s) ==
            LET after(pr) ==
                    IF pr.ok THEN LeadingZero(s, pr.val, pr.pos) ELSE pr
            IN  IF Tok(ts, i + 1) = <<".">>
                THEN after(Precision(ts, i + 2))
                ELSE LeadingZero(s, <<>>, i + 1)
        float(f, dot) ==
            LET after(pr) ==
                    IF pr.ok
                    THEN LeadingZero(SubSeq(f, 1, dot - 1), pr.val, pr.pos)
                    ELSE pr
            IN  IF dot = 0
                THEN NotParsed(i + 1, "Expected [0] [INT] [. INT] here")
                ELSE IF dot = Len(f)
                THEN after(Precision(ts, i + 1))
                ELSE after(Parsed(i + 1, <<"Integer">>
                                             \o SubSeq(f, dot + 1, Len(f))))
    IN  IF IsLitInt(Tok(ts, i)) THEN int(Tok(ts, i))
        ELSE IF IsLitFloat(Tok(ts, i))
        THEN float(Tok(ts, i), DotAt(Tok(ts, i)))
        ELSE NotParsed(i, "Expected [0] [INT] [. INT] here")

\* The value of Numbers when Numbers::peek does not hold.
NoNumbers == [zero |-> FALSE, width |-> <<>>, precision |-> <<>>]

\* An identifier before `?` taken like any other identifier.
FormatType_NoHex(ts, i) ==
    IF i > Len(ts) THEN Parsed(i, <<"Display">>)
    ELSE IF Tok(ts, i) = <<"?">> THEN Parsed(i + 1, <<"Debug">>)
    ELSE IF IsFormatIdent(Tok(ts, i))
    THEN Parsed(i + 1, <<"Other">> \o Tok(ts, i))
    ELSE NotParsed(i, "expected identifier")

\* FormatType::parse.
FormatType(ts, i) ==
    IF i > Len(ts) THEN Parsed(i, <<"Display">>)
    ELSE IF Tok(ts, i) = <<"?">> THEN Parsed(i + 1, <<"Debug">>)
    ELSE IF Tok(ts, i + 1) = <<"?">>
    THEN IF ~IsFormatIdent(Tok(ts, i)) THEN NotParsed(i, "expected identifier")
         ELSE IF Tok(ts, i) = <<"x">> THEN Parsed(i + 2, <<"DebugLowerHex">>)
         ELSE IF Tok(ts, i) = <<"X">> THEN Parsed(i + 2, <<"DebugUpperHex">>)
         ELSE NotParsed(i, "Expected either x or X here!")
    ELSE IF IsFormatIdent(Tok(ts, i))
    THEN Parsed(i + 1, <<"Other">> \o Tok(ts, i))
    ELSE NotParsed(i, "expected identifier")

\* flip(peek.then(|| parse)): the field when its peek holds, None (the
\* empty value, the cursor unmoved) when it does not.
flip(peek, r, none, i) == IF peek THEN r ELSE Parsed(i, none)

\* The fields of Formatting not yet parsed.
NoFormatting ==
    [align |-> <<>>, sign |-> <<>>, pretty |-> <<>>, zero |-> FALSE,
     width |-> <<>>, precision |-> <<>>, type |-> <<>>]

\* Formatting::parse: Align, Sign, Pretty, Numbers and the type, in this
\* order, each of the first four only when its peek holds.
Formatting(ts, i) ==
    LET type(f, t) ==
            IF t.ok THEN Parsed(t.pos, [f EXCEPT !.type = t.val]) ELSE t
        numbers(f, n) ==
            IF n.ok
            THEN type([f EXCEPT !.zero = n.val.zero, !.width = n.val.width,
                                !.precision = n.val.precision],
                      FormatType(ts, n.pos))
            ELSE n
        pretty(f, p) ==
            IF p.ok
            THEN numbers([f EXCEPT !.pretty = p.val],
                         flip(Numbers_peek(ts, p.pos), Numbers(ts, p.pos),
                              NoNumbers, p.pos))
            ELSE p
        sign(f, g) ==
            IF g.ok
            THEN pretty([f EXCEPT !.sign = g.val],
                        flip(Pretty_peek(ts, g.pos), Pretty(ts, g.pos),
                             <<>>, g.pos))
            ELSE g
        align(a) ==
            IF a.ok
            THEN sign([NoFormatting EXCEPT !.align = a.val],
                      flip(Sign_peek(ts, a.pos), Sign(ts, a.pos), <<>>, a.pos))
            ELSE a
    IN  align(flip(Align_peek(ts, i), Align(ts, i), <<>>, i))

----------------------------------------------------------------------------
(* jsx.rs: attributes and tags.  Each parser takes the cursor and gives    *)
(* ok, the cursor afterwards (or where it failed), the message, and left:  *)
(* whether a brace group it parsed was dropped with tokens remaining.      *)

\* Attribute: a brace group is a spread attribute `{..expr}`; an identifier
\* is a named attribute, with an initializer when `=` follows it.
Attribute(p) ==
    IF IsBrace(At(p)) THEN BraceFields(p, <<"..">>, "expr")
    ELSE IF IsIdent(At(p))
    THEN IF At(p + 1) = "="
         THEN IF At(p + 2) = "s" THEN Ok(p + 3)
              ELSE IF IsBrace(At(p + 2)) THEN BraceFields(p + 2, <<>>, "expr")
              ELSE Fail(p + 2, "expected string literal or attribute value")
         ELSE Ok(p + 1)
    ELSE Fail(p, "expected spread attribute or named attribute")

RECURSIVE parse_attrs_from(_, _)
parse_attrs_from(p, left) ==
    IF At(p) \in {">", "/"}
    THEN [ok |-> TRUE, pos |-> p, msg |-> "", left |-> left]
    ELSE LET next(a) ==
                 IF a.ok THEN parse_attrs_from(a.pos, left \/ a.left) ELSE a
         IN  next(Attribute(p))

\* The attribute loop left after one attribute at most.
parse_attrs_AtMostOne(p) ==
    IF At(p) \in {">", "/"}
    THEN [ok |-> TRUE, pos |-> p, msg |-> "", left |-> FALSE]
    ELSE Attribute(p)

\* parse_attrs: attributes until `>` or `/` is next.
parse_attrs(p) == parse_attrs_from(p, FALSE)

\* `<`, the name and the attributes: the common start of OpeningElement and
\* SelfClosingElement, and what Element parses on its fork.
TagStart(p) ==
    IF At(p) # "<"
    THEN [ok |-> FALSE, pos |-> p, msg |-> "expected <", left |-> FALSE,
          segs |-> <<>>]
    ELSE LET attrs(n, a) ==
                 [ok |-> a.ok, pos |-> a.pos, msg |-> a.msg,
                  left |-> a.left, segs |-> n.segs]
             name(n) ==
                 IF ~n.ok
                 THEN [ok |-> FALSE, pos |-> n.pos, msg |-> n.msg,
                       left |-> FALSE, segs |-> <<>>]
                 ELSE attrs(n, parse_attrs(n.pos))
         IN  name(ElementName(p + 1))

\* OpeningElement: `<` name attributes `>`.
OpeningElement(p) ==
    LET gt(t) ==
            IF ~t.ok THEN t
            ELSE IF At(t.pos) = ">" THEN [t EXCEPT !.pos = t.pos + 1]
            ELSE [t EXCEPT !.ok = FALSE, !.msg = "expected >"]
    IN  gt(TagStart(p))

\* SelfClosingElement: `<` name attributes `/` `>`.
SelfClosingElement(p) ==
    LET slash_gt(t) ==
            IF ~t.ok THEN t
            ELSE IF At(t.pos) # "/"
            THEN [t EXCEPT !.ok = FALSE, !.msg = "expected /"]
            ELSE IF At(t.pos + 1) # ">"
            THEN [t EXCEPT !.ok = FALSE, !.pos = t.pos + 1,
                           !.msg = "expected >"]
            ELSE [t EXCEPT !.pos = t.pos + 2]
    IN  slash_gt(TagStart(p))

\* ClosingElement: `<` `/` name `>`.
ClosingElement(p) ==
    IF At(p) # "<"
    THEN [ok |-> FALSE, pos |-> p, msg |-> "expected <", segs |-> <<>>]
    ELSE IF At(p + 1) # "/"
    THEN [ok |-> FALSE, pos |-> p + 1, msg |-> "expected /", segs |-> <<>>]
    ELSE LET gt(n) ==
                 IF ~n.ok THEN n
                 ELSE IF At(n.pos) = ">" THEN [n EXCEPT !.pos = n.pos + 1]
                 ELSE [n EXCEPT !.ok = FALSE, !.msg = "expected >"]
         IN  gt(ElementName(p + 2))

\* FragmentOpening: `<` `>`.
FragmentOpening(p) ==
    IF At(p) # "<" THEN Fail(p, "expected <")
    ELSE IF At(p + 1) # ">" THEN Fail(p + 1, "expected >")
    ELSE Ok(p + 2)

\* FragmentClosing: `<` `/` `>`.
FragmentClosing(p) ==
    IF At(p) # "<" THEN Fail(p, "expected <")
    ELSE IF At(p + 1) # "/" THEN Fail(p + 1, "expected /")
    ELSE IF At(p + 2) # ">" THEN Fail(p + 2, "expected >")
    ELSE Ok(p + 3)

----------------------------------------------------------------------------
(* jsx.rs: text, comments; mustache.rs: interpolation.                     *)

\* Text that does not stop at `>`.
RECURSIVE Text_GtTaken(_)
Text_GtTaken(p) ==
    IF At(p) = "<" \/ IsBrace(At(p)) THEN Ok(p)
    ELSE IF IsEmpty(p) THEN Fail(p, "expected token tree")
    ELSE Text_GtTaken(p + 1)

\* Text: token trees while none of `<`, `>`, a brace group is next.  At the
\* end of the input none of them is next and the token tree is missing.
RECURSIVE Text(_)
Text(p) ==
    IF At(p) \in {"<", ">"} \/ IsBrace(At(p)) THEN Ok(p)
    ELSE IF IsEmpty(p) THEN Fail(p, "expected token tree")
    ELSE Text(p + 1)

\* Comment::peek taking the `<` from the cursor itself, no fork taken.
Comment_peek_NoFork(p) ==
    [match |-> At(p) = "<" /\ At(p + 1) = "!" /\ At(p + 2) = "-"
               /\ At(p + 3) = "-",
     cur |-> IF At(p) = "<" THEN p + 1 ELSE p]

\* Comment::peek: on a fork, `<` and then `!` `-` `-`; cur is the real
\* cursor afterwards.
Comment_peek(p) ==
    [match |-> At(p) = "<" /\ At(p + 1) = "!" /\ At(p + 2) = "-"
               /\ At(p + 3) = "-",
     cur |-> p]

\* OpenComment: `<` `!` `-` `-`.
OpenComment(p) ==
    IF At(p) # "<" THEN Fail(p, "expected <")
    ELSE IF At(p + 1) # "!" THEN Fail(p + 1, "expected !")
    ELSE IF At(p + 2) # "-" THEN Fail(p + 2, "expected -")
    ELSE IF At(p + 3) # "-" THEN Fail(p + 3, "expected -")
    ELSE Ok(p + 4)

\* The contents up to `-` `-`, whatever follows it.
RECURSIVE CommentContents_TwoDashes(_)
CommentContents_TwoDashes(p) ==
    IF At(p) = "-" /\ At(p + 1) = "-" THEN Ok(p)
    ELSE IF IsEmpty(p) THEN Fail(p, "expected token tree")
    ELSE CommentContents_TwoDashes(p + 1)

\* The contents of a comment: token trees until `-` `-` `>` is next.
RECURSIVE CommentContents(_)
CommentContents(p) ==
    IF At(p) = "-" /\ At(p + 1) = "-" /\ At(p + 2) = ">" THEN Ok(p)
    ELSE IF IsEmpty(p) THEN Fail(p, "expected token tree")
    ELSE CommentContents(p + 1)

\* Comment: OpenComment, the contents, CloseComment.
Comment(p) ==
    LET close(c) == IF ~c.ok THEN c ELSE Ok(c.pos + 3)
        contents(o) == IF ~o.ok THEN o ELSE close(CommentContents(o.pos))
    IN  contents(OpenComment(p))

\* Mustache: a brace group holding an expression.
Mustache(p) == BraceFields(p, <<>>, "expr")

----------------------------------------------------------------------------
(* svelte/blocks: the peeks.  Each looks inside the brace group that is    *)
(* next, on a fork; match is its answer and cur the real cursor afterwards.*)

IfOpening_peek(p) ==
    LET peek(r) ==
            [match |-> r.ok /\ In(r.inner, 1) = "#" /\ In(r.inner, 2) = "if",
             cur |-> r.cur]
    IN  peek(inside_braces(p))

IfClosing_peek(p) ==
    LET peek(r) ==
            [match |-> r.ok /\ In(r.inner, 1) = "/" /\ In(r.inner, 2) = "if",
             cur |-> r.cur]
    IN  peek(inside_braces(p))

ElseDivider_peek(p) ==
    LET peek(r) ==
            [match |-> r.ok /\ In(r.inner, 1) = ":" /\ In(r.inner, 2) = "else"
                       /\ In(r.inner, 3) # "if",
             cur |-> r.cur]
    IN  peek(inside_braces(p))

ElseIfDivider_peek(p) ==
    LET peek(r) ==
            [match |-> r.ok /\ In(r.inner, 1) = ":" /\ In(r.inner, 2) = "else"
                       /\ In(r.inner, 3) = "if",
             cur |-> r.cur]
    IN  peek(inside_braces(p))

\* IfDivider::peek: ElseDivider::peek || ElseIfDivider::peek.
IfDivider_peek(p) ==
    LET or(e) == IF e.match THEN e ELSE ElseIfDivider_peek(e.cur)
    IN  or(ElseDivider_peek(p))

MatchOpening_peek(p) ==
    LET peek(r) ==
            [match |-> r.ok /\ In(r.inner, 1) = "#" /\ In(r.inner, 2) = "match",
             cur |-> r.cur]
    IN  peek(inside_braces(p))

MatchClosing_peek(p) ==
    LET peek(r) ==
            [match |-> r.ok /\ In(r.inner, 1) = "/" /\ In(r.inner, 2) = "match",
             cur |-> r.cur]
    IN  peek(inside_braces(p))

CaseDivider_peek(p) ==
    LET peek(r) ==
            [match |-> r.ok /\ In(r.inner, 1) = ":" /\ In(r.inner, 2) = "case",
             cur |-> r.cur]
    IN  peek(inside_braces(p))

\* The predicate a block hands to parse_divided_until: its closing is next.
Closing_peek(kind, p) ==
    IF kind = "If" THEN IfClosing_peek(p) ELSE MatchClosing_peek(p)

\* Div::peek of the block's divider type.
Div_peek(kind, p) ==
    IF kind = "If" THEN IfDivider_peek(p) ELSE CaseDivider_peek(p)

\* parse_until stopping at every brace group, a mustache too.
DividerOrClosing_peek_AnyBrace(kind, p) ==
    [match |-> IsBrace(At(p)), cur |-> p]

\* The predicate of every parse_until of a block: a divider or the closing
\* is next (|i| Div::peek(i) || pred(i)).
DividerOrClosing_peek(kind, p) ==
    LET or(d) == IF d.match THEN d ELSE Closing_peek(kind, d.cur)
    IN  or(Div_peek(kind, p))

----------------------------------------------------------------------------
(* svelte/blocks: openings, dividers and closings of the blocks.  Each     *)
(* gives the parse result and the kind of what it parsed.                  *)

IfOpening(p) == BraceFields(p, <<"#", "if">>, "expr")
IfClosing(p) == BraceFields(p, <<"/", "if">>, "none")
ElseDivider(p) == BraceFields(p, <<":", "else">>, "none")
ElseIfDivider(p) == BraceFields(p, <<":", "else", "if">>, "expr")
MatchOpening(p) == BraceFields(p, <<"#", "match">>, "expr")
MatchClosing(p) == BraceFields(p, <<"/", "match">>, "none")
CaseDivider(p) == BraceFields(p, <<":", "case">>, "case")

\* IfDivider with Else tried first, on `:` `else` alone: `{:else if ..}`
\* is then taken for an Else.
IfDivider_ElseFirst(p) ==
    IF In(Inner(At(p)), 1) = ":" /\ In(Inner(At(p)), 2) = "else"
    THEN [r |-> ElseDivider(p), kind |-> "Else"]
    ELSE IF ElseIfDivider_peek(p).match
    THEN [r |-> ElseIfDivider(p), kind |-> "ElseIf"]
    ELSE [r |-> Fail(p, "Expected either {:else if ...}, or {:else} here"),
          kind |-> ""]

\* IfDivider: ElseIf when its peek holds, else Else when its peek holds,
\* else an error.
IfDivider(p) ==
    IF ElseIfDivider_peek(p).match
    THEN [r |-> ElseIfDivider(p), kind |-> "ElseIf"]
    ELSE IF ElseDivider_peek(p).match
    THEN [r |-> ElseDivider(p), kind |-> "Else"]
    ELSE [r |-> Fail(p, "Expected either {:else if ...}, or {:else} here"),
          kind |-> ""]

\* Divider with the guard of a case left out: every case has guard None.
Divider_GuardDropped(kind, p) ==
    IF kind = "If" THEN IfDivider(p)
    ELSE [r |-> CaseDivider(p), kind |-> "Case"]

\* The divider type of a block: IfDivider or CaseDivider; a case is of kind
\* "CaseIf" when its guard is Some and "Case" when it is None.
Divider(kind, p) ==
    IF kind = "If" THEN IfDivider(p)
    ELSE [r |-> CaseDivider(p),
          kind |-> IF CaseFields(Inner(At(p)), 3).some
                   THEN "CaseIf" ELSE "Case"]

Opening(kind, p) == IF kind = "If" THEN IfOpening(p) ELSE MatchOpening(p)
Closing(kind, p) == IF kind = "If" THEN IfClosing(p) ELSE MatchClosing(p)

----------------------------------------------------------------------------
(* The lookahead decisions of jsx.rs.                                      *)

\* Child::parse without the Comment::peek branch: a comment falls through
\* to Text.
Child_dispatch_NoComment(p) ==
    IF At(p) = "<" /\ At(p + 1) = ">" THEN [kind |-> "Fragment", cur |-> p]
    ELSE IF At(p) = "<" /\ IsIdent(At(p + 1))
    THEN [kind |-> "Element", cur |-> p]
    ELSE IF IsBrace(At(p)) THEN [kind |-> "Mustache", cur |-> p]
    ELSE [kind |-> "Text", cur |-> p]

\* Child::parse chooses the production: the kind chosen and the real cursor
\* after the peeks it made.
Child_dispatch(p) ==
    IF At(p) = "<" /\ At(p + 1) = ">" THEN [kind |-> "Fragment", cur |-> p]
    ELSE IF At(p) = "<" /\ IsIdent(At(p + 1))
    THEN [kind |-> "Element", cur |-> p]
    ELSE IF IsBrace(At(p)) THEN [kind |-> "Mustache", cur |-> p]
    ELSE LET comment(c) ==
                 IF c.match THEN [kind |-> "Comment", cur |-> c.cur]
                 ELSE [kind |-> "Text", cur |-> c.cur]
         IN  comment(Comment_peek(p))

\* The lookahead on the cursor itself, no fork taken.
Element_lookahead_NoFork(p) ==
    LET decide(f) ==
            [res |-> IF ~f.ok THEN "err"
                     ELSE IF At(f.pos) = "/" THEN "SelfClosing"
                     ELSE IF At(f.pos) = ">" THEN "Closed"
                     ELSE "neither",
             f |-> f,
             cur |-> f.pos]
    IN  decide(TagStart(p))

\* Element::parse up to its decision: `<`, the name and the attributes on a
\* fork f, then `/` or `>` next on the fork.  res is "SelfClosing",
\* "Closed", "err" (the fork's parse failed: f holds the error) or
\* "neither"; cur is the real cursor afterwards.
Element_lookahead(p) ==
    LET decide(f) ==
            [res |-> IF ~f.ok THEN "err"
                     ELSE IF At(f.pos) = "/" THEN "SelfClosing"
                     ELSE IF At(f.pos) = ">" THEN "Closed"
                     ELSE "neither",
             f |-> f,
             cur |-> p]
    IN  decide(TagStart(p))

\* The paths compared as wholes: the lengths must agree too.
ZipAllEqual_WholePath(i, name) == i = name

\* all(|(a, b)| a.ident == b.ident) over the zip of two paths.
ZipAllEqual(i, name) ==
    \A k \in 1..Len(i) : k <= Len(name) => i[k] = name[k]

\* The closing-tag check of ClosedElement::parse: when `<` `/` identifier is
\* next, the path after `</` is parsed on a fork and unwrapped, then
\* compared with the opening name.  res is "match", "other" (no closing
\* tag, or one of another name) or "panic"; cur is the real cursor.
ClosingCheck(p, name) ==
    IF At(p) = "<" /\ At(p + 1) = "/" /\ IsIdent(At(p + 2))
    THEN LET compare(i) ==
                 [res |-> IF ~i.ok THEN "panic"
                          ELSE IF ZipAllEqual(i.segs, name) THEN "match"
                          ELSE "other",
                  cur |-> p]
         IN  compare(ElementName(p + 2))
    ELSE [res |-> "other", cur |-> p]

----------------------------------------------------------------------------
(* The state: frames, nodes, outcomes.                                     *)

\* What a parent keeps of a child: its kind and the tokens from..to-1 it
\* was parsed from.
Kid(kind, from, to) == [kind |-> kind, from |-> from, to |-> to]
NoKid == Kid("", 0, 0)

\* A call of the parse function fn that started with the cursor at p.
Frame(fn, p) ==
    [fn |-> fn, ph |-> "start", from |-> p,
     kind |-> IF fn = "IfBlock" THEN "If"
              ELSE IF fn = "MatchBlock" THEN "Match" ELSE "",
     item |-> "", name |-> <<>>, kids |-> <<>>, divs |-> <<>>, div |-> NoKid]

\* A finished element, fragment or block.
Node(f, to, close) ==
    [kind |-> f.fn, from |-> f.from, to |-> to, open |-> f.name,
     close |-> close, kids |-> f.kids, divs |-> f.divs]

NoResult ==
    [kind |-> "none", msg |-> "", at |-> 0, by |-> "", fork |-> FALSE,
     name |-> <<>>]

\* An error raised by the parse function `by` with the cursor (the real one,
\* or a fork) at `at`.
Error(msg, at, by, fork) ==
    [kind |-> "err", msg |-> msg, at |-> at, by |-> by, fork |-> fork,
     name |-> <<>>]

Panic(msg, at, by, fork) ==
    [kind |-> "panic", msg |-> msg, at |-> at, by |-> by, fork |-> fork,
     name |-> <<>>]

Top == stack[Len(stack)]
Rest == SubSeq(stack, 1, Len(stack) - 1)

\* The children of a list that were parsed from no token at all.
Idle(kids) == {i \in DOMAIN kids : kids[i].from = kids[i].to}

\* The parse function fn is the innermost active one.  A loop is followed
\* until MaxIdle of its children consumed nothing: the cursor has not moved,
\* so the loop repeats the same step for ever.
Running(fn) ==
    /\ result.kind = "none"
    /\ stack # <<>>
    /\ Top.fn = fn
    /\ Cardinality(Idle(Top.kids)) < MaxIdle

\* insert(0, ..) in place of push(..): the list comes out reversed.
Push_Front(list, x) == <<x>> \o list

\* children.push(..) / parsed.push(..).
Push(list, x) == Append(list, x)

\* A child returns to the loop that called it: the loop pushes it.
ReturnChild(stk, kid) ==
    IF stk = <<>> THEN stk
    ELSE [stk EXCEPT ![Len(stk)].kids = Push(@, kid)]

\* parse_until returns its list: to the block (its leading children; the
\* block goes on with parse_divided_until), or to parse_divided_until (the
\* children of the divider just parsed).
ReturnChildren(stk, kids, p) ==
    LET to(t) ==
            IF t.fn = "parse_divided_until"
            THEN [stk EXCEPT
                     ![Len(stk)].divs = Push(@, [div |-> t.div, kids |-> kids]),
                     ![Len(stk)].div = NoKid,
                     ![Len(stk)].ph = "loop"]
            ELSE Append([stk EXCEPT ![Len(stk)].kids = kids,
                                    ![Len(stk)].ph = "dividers"],
                        [Frame("parse_divided_until", p) EXCEPT
                            !.kind = t.kind, !.ph = "loop"])
    IN  to(stk[Len(stk)])

\* parse_divided_until returns its list to the block.
ReturnDividers(stk, divs) ==
    [stk EXCEPT ![Len(stk)].divs = divs, ![Len(stk)].ph = "closing"]

\* The parse fails: every caller returns the error (`?`).
Raise(e) ==
    /\ result' = e
    /\ UNCHANGED <<tokens, entry, pos, stack, nodes, root, unexpected>>

----------------------------------------------------------------------------
(* The parse functions, one action each.                                   *)

\* A production that is a single run of tokens (SelfClosingElement, Text,
\* Comment, Mustache) parsed r from the real cursor: it returns its node to
\* the loop that called it, or the parse fails.
Produce(kind, r, built) ==
    IF r.ok
    THEN /\ pos' = r.pos
         /\ stack' = ReturnChild(Rest, Kid(kind, Top.from, r.pos))
         /\ root' = IF Rest = <<>> THEN Kid(kind, Top.from, r.pos) ELSE root
         /\ unexpected' = (unexpected \/ r.left)
         /\ nodes' = nodes \cup built
         /\ UNCHANGED <<tokens, entry, result>>
    ELSE Raise(Error(r.msg, r.pos, kind, FALSE))

\* Root::parse: `<` `>` is a fragment, `<` identifier an element.
Root_parse ==
    /\ Running("Root")
    /\ IF At(pos) = "<" /\ At(pos + 1) = ">"
       THEN /\ stack' = Append(Rest, Frame("Fragment", pos))
            /\ UNCHANGED <<tokens, entry, pos, nodes, root, result, unexpected>>
       ELSE IF At(pos) = "<" /\ IsIdent(At(pos + 1))
       THEN /\ stack' = Append(Rest, Frame("Element", pos))
            /\ UNCHANGED <<tokens, entry, pos, nodes, root, result, unexpected>>
       ELSE Raise(Error("Expected either element or fragment here", pos,
                        "Root", FALSE))

\* Child::parse: the production chosen by Child_dispatch parses the child.
Child_parse ==
    /\ Running("Child")
    /\ LET call(d) ==
               /\ pos' = d.cur
               /\ stack' = Append(Rest, Frame(d.kind, d.cur))
       IN  call(Child_dispatch(pos))
    /\ UNCHANGED <<tokens, entry, nodes, root, result, unexpected>>

\* Element::parse: the lookahead on a fork, whose error is returned with
\* `?`; then the chosen production parses from the real cursor.
Element_parse ==
    /\ Running("Element")
    /\ LET call(l) ==
               IF l.res = "err"
               THEN Raise(Error(l.f.msg, l.f.pos, "Element", TRUE))
               ELSE IF l.res = "neither"
               THEN Raise(Error("Expected either opening or self-closing tag here",
                                l.cur, "Element", FALSE))
               ELSE /\ pos' = l.cur
                    /\ stack' = Append(Rest, Frame(l.res, l.cur))
                    /\ UNCHANGED <<tokens, entry, nodes, root, result,
                                   unexpected>>
       IN  call(Element_lookahead(pos))

\* SelfClosingElement::parse.
SelfClosingElement_parse ==
    /\ Running("SelfClosing")
    /\ LET built(r) ==
               Produce("SelfClosing", r,
                       {Node([Top EXCEPT !.name = r.segs], r.pos, <<>>)})
       IN  built(SelfClosingElement(pos))

\* ClosedElement::parse: the opening, then the loop: end of input is an
\* error, the closing tag of the opening name ends the element, anything
\* else is a child.
ClosedElement_parse ==
    /\ Running("Closed")
    /\ LET opening(o) ==
               IF o.ok
               THEN /\ pos' = o.pos
                    /\ stack' = [stack EXCEPT ![Len(stack)].ph = "loop",
                                              ![Len(stack)].name = o.segs]
                    /\ unexpected' = (unexpected \/ o.left)
                    /\ UNCHANGED <<tokens, entry, nodes, root, result>>
               ELSE Raise(Error(o.msg, o.pos, "OpeningElement", FALSE))
           check(c) ==
               IF c.res = "panic"
               THEN Raise(Panic("called Result::unwrap() on an Err value",
                                c.cur, "ClosedElement", TRUE))
               ELSE /\ pos' = c.cur
                    /\ stack' = IF c.res = "match"
                                THEN [stack EXCEPT ![Len(stack)].ph = "closing"]
                                ELSE Append(stack, Frame("Child", c.cur))
                    /\ UNCHANGED <<tokens, entry, nodes, root, result,
                                   unexpected>>
           closing(c) ==
               IF c.ok
               THEN /\ pos' = c.pos
                    /\ stack' = ReturnChild(Rest, Kid("Closed", Top.from, c.pos))
                    /\ root' = IF Rest = <<>>
                               THEN Kid("Closed", Top.from, c.pos) ELSE root
                    /\ nodes' = nodes \cup {Node(Top, c.pos, c.segs)}
                    /\ UNCHANGED <<tokens, entry, result, unexpected>>
               ELSE Raise(Error(c.msg, c.pos, "ClosingElement", FALSE))
       IN  IF Top.ph = "start" THEN opening(OpeningElement(pos))
           ELSE IF Top.ph = "closing" THEN closing(ClosingElement(pos))
           ELSE IF IsEmpty(pos)
           THEN Raise([Error("Did not find appropriate closing tag", pos,
                             "ClosedElement", FALSE)
                       EXCEPT !.name = Top.name])
           ELSE check(ClosingCheck(pos, Top.name))

\* Fragment: FragmentOpening, parse_fragment_children (children until
\* `<` `/` `>` is next), FragmentClosing.
Fragment_parse ==
    /\ Running("Fragment")
    /\ LET opening(o) ==
               IF o.ok
               THEN /\ pos' = o.pos
                    /\ stack' = [stack EXCEPT ![Len(stack)].ph = "loop"]
                    /\ UNCHANGED <<tokens, entry, nodes, root, result,
                                   unexpected>>
               ELSE Raise(Error(o.msg, o.pos, "FragmentOpening", FALSE))
           closing(c) ==
               /\ pos' = c.pos
               /\ stack' = ReturnChild(Rest, Kid("Fragment", Top.from, c.pos))
               /\ root' = IF Rest = <<>>
                          THEN Kid("Fragment", Top.from, c.pos) ELSE root
               /\ nodes' = nodes \cup {Node(Top, c.pos, <<>>)}
               /\ UNCHANGED <<tokens, entry, result, unexpected>>
       IN  IF Top.ph = "start" THEN opening(FragmentOpening(pos))
           ELSE IF At(pos) = "<" /\ At(pos + 1) = "/" /\ At(pos + 2) = ">"
           THEN closing(FragmentClosing(pos))
           ELSE /\ stack' = Append(stack, Frame("Child", pos))
                /\ UNCHANGED <<tokens, entry, pos, nodes, root, result,
                               unexpected>>

\* Text::parse.
Text_parse ==
    /\ Running("Text")
    /\ Produce("Text", Text(pos), {})

\* Comment::parse.
Comment_parse ==
    /\ Running("Comment")
    /\ Produce("Comment", Comment(pos), {})

\* Mustache::parse.
Mustache_parse ==
    /\ Running("Mustache")
    /\ Produce("Mustache", Mustache(pos), {})

\* Block::parse with a typed error in place of unimplemented!().
Block_parse_TypedError ==
    /\ Running("Block")
    /\ LET call(fn, cur) ==
               /\ pos' = cur
               /\ stack' = Append(Rest, Frame(fn, cur))
               /\ UNCHANGED <<tokens, entry, nodes, root, result, unexpected>>
           match(m) ==
               IF m.match THEN call("MatchBlock", m.cur)
               ELSE Raise(Error("unknown block", m.cur, "Block", FALSE))
           if(i) ==
               IF i.match THEN call("IfBlock", i.cur)
               ELSE match(MatchOpening_peek(i.cur))
       IN  if(IfOpening_peek(pos))

\* Block::parse: If when IfBlock::peek holds, Match when MatchBlock::peek
\* holds, otherwise unimplemented!().
Block_parse ==
    /\ Running("Block")
    /\ LET call(fn, cur) ==
               /\ pos' = cur
               /\ stack' = Append(Rest, Frame(fn, cur))
               /\ UNCHANGED <<tokens, entry, nodes, root, result, unexpected>>
           match(m) ==
               IF m.match THEN call("MatchBlock", m.cur)
               ELSE Raise(Panic("not implemented: Ahhh", m.cur, "Block", FALSE))
           if(i) ==
               IF i.match THEN call("IfBlock", i.cur)
               ELSE match(MatchOpening_peek(i.cur))
       IN  if(IfOpening_peek(pos))

\* The body of IfBlock::parse and of MatchBlock::parse: the opening, then
\* parse_until for the leading children (Child for If, Comment for Match),
\* parse_divided_until for the dividers, and the closing.
BlockSteps(item) ==
    LET opening(o) ==
            IF o.ok
            THEN /\ pos' = o.pos
                 /\ stack' = Append([stack EXCEPT ![Len(stack)].ph = "body"],
                                    [Frame("parse_until", o.pos) EXCEPT
                                        !.kind = Top.kind, !.item = item])
                 /\ unexpected' = (unexpected \/ o.left)
                 /\ UNCHANGED <<tokens, entry, nodes, root, result>>
            ELSE Raise(Error(o.msg, o.pos, Top.fn, FALSE))
        closing(c) ==
            IF c.ok
            THEN /\ pos' = c.pos
                 /\ stack' = ReturnChild(Rest, Kid(Top.fn, Top.from, c.pos))
                 /\ root' = IF Rest = <<>>
                            THEN Kid(Top.fn, Top.from, c.pos) ELSE root
                 /\ nodes' = nodes \cup {Node(Top, c.pos, <<>>)}
                 /\ unexpected' = (unexpected \/ c.left)
                 /\ UNCHANGED <<tokens, entry, result>>
            ELSE Raise(Error(c.msg, c.pos, Top.fn, FALSE))
    IN  IF Top.ph = "start" THEN opening(Opening(Top.kind, pos))
        ELSE closing(Closing(Top.kind, pos))

IfBlock_parse ==
    /\ Running("IfBlock")
    /\ BlockSteps("Child")

\* MatchBlock::parse with children: Vec<Child>: anything may lead the cases.
MatchBlock_parse_AnyChild ==
    /\ Running("MatchBlock")
    /\ BlockSteps("Child")

MatchBlock_parse ==
    /\ Running("MatchBlock")
    /\ BlockSteps("Comment")

\* parse_until: while the predicate does not hold, parse one more item.
parse_until ==
    /\ Running("parse_until")
    /\ LET loop(s) ==
               /\ pos' = s.cur
               /\ stack' = IF s.match
                           THEN ReturnChildren(Rest, Top.kids, s.cur)
                           ELSE Append(stack, Frame(Top.item, s.cur))
       IN  loop(DividerOrClosing_peek(Top.kind, pos))
    /\ UNCHANGED <<tokens, entry, nodes, root, result, unexpected>>

\* parse_divided_until: while the closing is not next, parse a divider and
\* then, with parse_until, the children that follow it.
parse_divided_until ==
    /\ Running("parse_divided_until")
    /\ LET loop(s) ==
               /\ pos' = s.cur
               /\ stack' = IF s.match
                           THEN ReturnDividers(Rest, Top.divs)
                           ELSE [stack EXCEPT ![Len(stack)].ph = "divider"]
               /\ UNCHANGED <<tokens, entry, nodes, root, result, unexpected>>
           divider(d) ==
               IF d.r.ok
               THEN /\ pos' = d.r.pos
                    /\ stack' =
                         Append([stack EXCEPT
                                    ![Len(stack)].ph = "body",
                                    ![Len(stack)].div = Kid(d.kind, pos, d.r.pos)],
                                [Frame("parse_until", d.r.pos) EXCEPT
                                    !.kind = Top.kind, !.item = "Child"])
                    /\ unexpected' = (unexpected \/ d.r.left)
                    /\ UNCHANGED <<tokens, entry, nodes, root, result>>
               ELSE Raise(Error(d.r.msg, d.r.pos, "Divider", FALSE))
       IN  IF Top.ph = "loop" THEN loop(Closing_peek(Top.kind, pos))
           ELSE divider(Divider(Top.kind, pos))

\* Formatting::parse calls its field parsers in the order of the struct;
\* the frame's ph is the field it is at, root the fields parsed so far.
FormatStep(field, r, next, built) ==
    IF r.ok
    THEN /\ pos' = r.pos
         /\ root' = built
         /\ stack' = IF next = "" THEN <<>> ELSE <<[Top EXCEPT !.ph = next]>>
         /\ UNCHANGED <<tokens, entry, nodes, result, unexpected>>
    ELSE IF r.panic
    THEN Raise(Panic(r.msg, r.pos, field, FALSE))
    ELSE Raise(Error(r.msg, r.pos, field, FALSE))

\* align: flip(Align::peek(input).then(|| input.parse()))?
Align_parse ==
    /\ Running("Formatting")
    /\ Top.ph = "start"
    /\ LET step(r) ==
               FormatStep("Align", r, "Sign", [root EXCEPT !.align = r.val])
       IN  step(flip(Align_peek(tokens, pos), Align(tokens, pos), <<>>, pos))

\* sign: flip(Sign::peek(input).then(|| input.parse()))?
Sign_parse ==
    /\ Running("Formatting")
    /\ Top.ph = "Sign"
    /\ LET step(r) ==
               FormatStep("Sign", r, "Pretty", [root EXCEPT !.sign = r.val])
       IN  step(flip(Sign_peek(tokens, pos), Sign(tokens, pos), <<>>, pos))

\* pretty: flip(Pretty::peek(input).then(|| input.parse()))?
Pretty_parse ==
    /\ Running("Formatting")
    /\ Top.ph = "Pretty"
    /\ LET step(r) ==
               FormatStep("Pretty", r, "Numbers",
                          [root EXCEPT !.pretty = r.val])
       IN  step(flip(Pretty_peek(tokens, pos), Pretty(tokens, pos), <<>>,
                     pos))

\* numbers: flip(Numbers::peek(input).then(|| input.parse()))?
Numbers_parse ==
    /\ Running("Formatting")
    /\ Top.ph = "Numbers"
    /\ LET step(r) ==
               FormatStep("Numbers", r, "FormatType",
                          IF r.ok
                          THEN [root EXCEPT !.zero = r.val.zero,
                                            !.width = r.val.width,
                                            !.precision = r.val.precision]
                          ELSE root)
       IN  step(flip(Numbers_peek(tokens, pos), Numbers(tokens, pos),
                     NoNumbers, pos))

\* ty: input.parse()?, the last field: Formatting::parse returns.
FormatType_parse ==
    /\ Running("Formatting")
    /\ Top.ph = "FormatType"
    /\ LET step(r) ==
               FormatStep("FormatType", r, "", [root EXCEPT !.type = r.val])
       IN  step(FormatType(tokens, pos))

\* syn::parse_str: once the entry parser has returned, a token dropped
\* inside a brace group or left in the input is an error.
Finish ==
    /\ result.kind = "none"
    /\ stack = <<>>
    /\ result' = IF unexpected \/ ~IsEmpty(pos)
                 THEN Error("unexpected token", pos, "parse_str", FALSE)
                 ELSE [NoResult EXCEPT !.kind = "ok"]
    /\ UNCHANGED <<tokens, entry, pos, stack, nodes, root, unexpected>>

----------------------------------------------------------------------------------------------------------------------------------------
(* The inputs: for each entry parser, token sequences put together from    *)
(* parts (single tokens and whole tags).  No part puts `<` after a name,   *)
(* so no path has generic arguments.                                       *)

RECURSIVE Flatten(_)
Flatten(ps) == IF ps = <<>> THEN <<>> ELSE Head(ps) \o Flatten(Tail(ps))

\* The sequences of at most n parts, as token sequences.
Runs(parts, n) == {Flatten(ps) : ps \in UNION {[1..k -> parts] : k \in 0..n}}

\* Markup: an opening, a body, a closing; any of them may be missing, and
\* the closing need not fit the opening.
MarkupHeads ==
    {<<>>,
     <<"<", ">">>,
     <<"<", "a", ">">>,
     <<"<", "a", "::", "b", ">">>,
     <<"<", "a", "b", ">">>,
     <<"<", "a", "b", "=", "s", "{..e}", ">">>,
     <<"<", "a", "t", ">">>,
     <<"<", "a", "::", "b", "b", "/", ">">>}

MarkupParts ==
    {<<"t">>, <<">">>, <<"<">>, <<"{e}">>,
     <<"<", "b", "/", ">">>,
     <<"<", "!", "-", "-">>, <<"-", "-", ">">>}

MarkupTails ==
    {<<>>,
     <<"<", "/", ">">>,
     <<"<", "/", "a", ">">>,
     <<"<", "/", "b", ">">>,
     <<"<", "/", "a", "::", "b", ">">>,
     <<"<", "/", "a", "::", ">">>}

MarkupInputs ==
    {h \o b \o t : h \in MarkupHeads, b \in Runs(MarkupParts, MaxParts),
                   t \in MarkupTails}

\* If blocks: `{#if e}`, a body with dividers, and `{/if}` or nothing.
IfParts ==
    {<<"t">>, <<"<", "b", "/", ">">>, <<"{:else}">>, <<"{:else if e}">>}

IfInputs ==
    {<<"{#if e}">> \o b \o t : b \in Runs(IfParts, MaxDividerParts),
                               t \in {<<>>, <<"{/if}">>}}

\* Match blocks: `{#match e}`, what leads the cases, the cases with their
\* children, and `{/match}` or nothing.
Comment1 == <<"<", "!", "-", "-", "t", "-", "-", ">">>

MatchLeads ==
    {<<>>, Comment1, Comment1 \o Comment1, <<"t">>, <<"{e}">>,
     <<"<", "b", "/", ">">>, <<"<", ">", "<", "/", ">">>,
     Comment1 \o <<"t">>}

MatchParts ==
    {<<"t">>, <<"{:case p}">>, <<"{:case p if e}">>, <<"{:case p e}">>}

MatchInputs ==
    {<<"{#match e}">> \o l \o b \o t :
        l \in MatchLeads, b \in Runs(MatchParts, MaxParts),
        t \in {<<>>, <<"{/match}">>}}

CaseParts == {<<"t">>, <<"{e}">>, <<"{:case p}">>, <<"{:case p if e}">>}

CaseInputs ==
    {<<"{#match e}">> \o b \o <<"{/match}">> :
        b \in Runs(CaseParts, MaxDividerParts)}

\* Blocks in any arrangement, nested ones too.
BlockParts ==
    {<<"t">>, <<"{e}">>, <<"{#for e}">>,
     <<"{#if e}">>, <<"{:else}">>, <<"{/if}">>,
     <<"{#match e}">>, <<"{:case p}">>, <<"{:case p if e}">>, <<"{/match}">>,
     <<"<", "a", ">">>, <<"<", "/", "a", ">">>,
     <<"<", "!", "-", "-", "t", "-", "-", ">">>}

BlockInputs == Runs(BlockParts, MaxParts)

\* Format specs: at most MaxFields parts in any order, a part being one
\* token of a field.
MaxFields == 3

FormatParts ==
    {<<<<"<">>>>, <<<<">">>>>, <<<<"'", "0", "'">>>>,
     <<<<"+">>>>, <<<<"#">>>>,
     <<<<"0">>>>, <<<<"5">>>>, <<<<"0", "5">>>>, <<<<"0", "0", "5">>>>,
     <<<<"6", ".", "5">>>>, <<<<"0", "6", ".", "5">>>>,
     <<<<"0", "0", "6", ".", "5">>>>, <<<<"6", ".">>>>,
     <<<<"0", "6", ".">>>>,
     <<<<"0", "x", "5">>>>, <<<<"0", "_", "5">>>>,
     <<<<".">>>>, <<<<"*">>>>, <<<<"$">>>>,
     <<<<"x">>>>, <<<<"X">>>>, <<<<"o">>>>, <<<<"?">>>>}

\* Format specs with every field, in the order of the struct.
FullFormats ==
    {a \o s \o <<<<"#">>>> \o n \o t :
        a \in {<<<<">">>>>, <<<<"^">>>>, <<<<"'", "0", "'">>, <<"<">>>>},
        s \in {<<<<"+">>>>, <<<<"-">>>>},
        n \in {<<<<"0", "5">>>>, <<<<"0", "6", ".", "5">>>>,
               <<<<"5">>, <<".">>, <<"*">>>>,
               <<<<"6", ".">>, <<"x">>, <<"$">>>>},
        t \in {<<>>, <<<<"?">>>>, <<<<"x">>, <<"?">>>>, <<<<"o">>>>}}

FormatInputs == Runs(FormatParts, MaxFields) \cup FullFormats

\* The entry parser (the type given to syn::parse_str) and its input.
Cases ==
    ({"Root"} \X MarkupInputs)
        \cup ({"Element"} \X {h \o t : h \in MarkupHeads, t \in MarkupTails})
        \cup ({"IfBlock"} \X IfInputs)
        \cup ({"MatchBlock"} \X (MatchInputs \cup CaseInputs))
        \cup ({"IfBlock", "MatchBlock", "Block"} \X BlockInputs)

Init ==
    /\ \E c \in Cases : entry = c[1] /\ tokens = c[2]
    /\ pos = 1
    /\ stack = <<Frame(entry, 1)>>
    /\ nodes = {}
    /\ root = NoKid
    /\ result = NoResult
    /\ unexpected = FALSE

Next ==
    \/ Root_parse
    \/ Child_parse
    \/ Element_parse
    \/ SelfClosingElement_parse
    \/ ClosedElement_parse
    \/ Fragment_parse
    \/ Text_parse
    \/ Comment_parse
    \/ Mustache_parse
    \/ Block_parse
    \/ IfBlock_parse
    \/ MatchBlock_parse
    \/ parse_until
    \/ parse_divided_until
    \/ Finish

Spec == Init /\ [][Next]_vars

\* The format spec parser alone: syn::parse_str::<Formatting> on a format
\* spec, as the tests of formatting.rs call it.
FInit ==
    /\ entry = "Formatting"
    /\ tokens \in FormatInputs
    /\ pos = 1
    /\ stack = <<Frame("Formatting", 1)>>
    /\ nodes = {}
    /\ root = NoFormatting
    /\ result = NoResult
    /\ unexpected = FALSE

FNext ==
    \/ Align_parse
    \/ Sign_parse
    \/ Pretty_parse
    \/ Numbers_parse
    \/ FormatType_parse
    \/ Finish

FormatSpec == FInit /\ [][FNext]_vars

\* The round trip of a format spec: its fields are written back as tokens
\* in the order of the grammar, and the tokens parsed.  nodes holds the
\* fields written.

\* The tokens of a format spec with the fields f.  The zero flag and the
\* width are one integer literal; the precision follows a `.`.
WriteFormatting(f) ==
    LET direction(d) ==
            IF d = "Right" THEN <<">">> ELSE IF d = "Center" THEN <<"^">>
            ELSE <<"<">>
        align ==
            IF f.align = <<>> THEN <<>>
            ELSE (IF Len(f.align) > 1 THEN <<Tail(f.align)>> ELSE <<>>)
                     \o <<direction(f.align[1])>>
        sign ==
            IF f.sign = <<>> THEN <<>>
            ELSE IF f.sign = <<"Positive">> THEN <<<<"+">>>> ELSE <<<<"-">>>>
        pretty == IF f.pretty = <<>> THEN <<>> ELSE <<<<"#">>>>
        width ==
            IF f.width = <<>> THEN <<>>
            ELSE <<(IF f.zero THEN <<"0">> ELSE <<>>) \o f.width>>
        precision ==
            IF f.precision = <<>> THEN <<>>
            ELSE IF f.precision = <<"Star">> THEN <<<<".">>, <<"*">>>>
            ELSE IF f.precision[1] = "Integer"
            THEN <<<<".">>, Tail(f.precision)>>
            ELSE <<<<".">>, Tail(f.precision), <<"$">>>>
        type ==
            IF f.type = <<"Display">> THEN <<>>
            ELSE IF f.type = <<"Debug">> THEN <<<<"?">>>>
            ELSE IF f.type = <<"DebugLowerHex">> THEN <<<<"x">>, <<"?">>>>
            ELSE IF f.type = <<"DebugUpperHex">> THEN <<<<"X">>, <<"?">>>>
            ELSE <<Tail(f.type)>>
    IN  align \o sign \o pretty \o width \o precision \o type

\* The field values: every alignment, sign and type, the widths 0, 5 and
\* 25, the three kinds of precision.
FormatAligns ==
    {<<>>} \cup {<<d>> : d \in {"Left", "Center", "Right"}}
           \cup {<<d, "'", "0", "'">> : d \in {"Left", "Center", "Right"}}

FormatWidths == {<<>>, <<"0">>, <<"5">>, <<"2", "5">>}

FormatPrecisions ==
    {<<>>, <<"Star">>, <<"Integer", "5">>, <<"Integer", "0", "5">>,
     <<"Parameter", "x">>}

FormatTypes ==
    {<<"Display">>, <<"Debug">>, <<"DebugLowerHex">>, <<"DebugUpperHex">>,
     <<"Other", "o">>, <<"Other", "x">>}

\* The valid combinations: a zero flag goes with a width, which then does
\* not start with `0` (`00` is not a number of the grammar).
ValidFormats ==
    {f \in [align : FormatAligns,
            sign : {<<>>, <<"Positive">>, <<"Negative">>},
            pretty : {<<>>, <<"Pretty">>},
            zero : BOOLEAN,
            width : FormatWidths,
            precision : FormatPrecisions,
            type : FormatTypes] :
        f.zero => (f.width # <<>> /\ f.width[1] # "0")}

\* The fields are written back as tokens.
Formatting_write ==
    /\ Running("Formatting")
    /\ Top.ph = "write"
    /\ \E f \in nodes : tokens' = WriteFormatting(f)
    /\ stack' = <<[Top EXCEPT !.ph = "start"]>>
    /\ UNCHANGED <<entry, pos, nodes, root, result, unexpected>>

RInit ==
    /\ entry = "RoundTrip"
    /\ tokens = <<>>
    /\ pos = 1
    /\ stack = <<[Frame("Formatting", 1) EXCEPT !.ph = "write"]>>
    /\ \E f \in ValidFormats : nodes = {f}
    /\ root = NoFormatting
    /\ result = NoResult
    /\ unexpected = FALSE

RNext ==
    \/ Formatting_write
    \/ Align_parse
    \/ Sign_parse
    \/ Pretty_parse
    \/ Numbers_parse
    \/ FormatType_parse
    \/ Finish

RoundTripSpec == RInit /\ [][RNext]_vars

----------------------------------------------------------------------------
(* Properties of the child loops and of Child::parse.                      *)

\* The frames of the loops that collect children.
Loops == {i \in DOMAIN stack : stack[i].kids # <<>>}

\* C1: parsing makes forward progress and terminates: no child loop (the
\* body of a Closed element or of a Fragment, parse_until) is ever back at a
\* cursor position at which it has already parsed a child, so that every
\* loop ends after at most as many children as there are tokens.
C1_ChildLoopsAdvance ==
    \A i \in Loops :
        \A j, k \in DOMAIN stack[i].kids :
            j < k => stack[i].kids[j].from < stack[i].kids[k].from

\* The frame f is the body of an open element and a closing tag of another
\* name starts at p.
MismatchedClosing(f, p) ==
    /\ f.fn = "Closed"
    /\ f.ph = "loop"
    /\ At(p) = "<" /\ At(p + 1) = "/" /\ IsIdent(At(p + 2))
    /\ ClosingCheck(p, f.name).res = "other"

\* The open elements whose body has reached a closing tag of another name.
Mismatched ==
    {i \in DOMAIN stack :
        \E k \in DOMAIN stack[i].kids :
            MismatchedClosing(stack[i], stack[i].kids[k].from)}

\* C2: a closing tag </B> met in the body of an open element <A ...> is
\* body content (the child parsed there takes its tokens) and the parse
\* ends with the error "Did not find appropriate closing tag" citing A.
C2_MismatchIsUnterminated ==
    \A i \in Mismatched :
        /\ \A k \in DOMAIN stack[i].kids :
               MismatchedClosing(stack[i], stack[i].kids[k].from)
                   => stack[i].kids[k].to > stack[i].kids[k].from
        /\ result.kind # "none"
               => /\ result.kind = "err"
                  /\ result.msg = "Did not find appropriate closing tag"
                  /\ result.name = stack[i].name

\* The parse failed at the end of the input, on the real cursor, in the body
\* of the open element of frame i: in its loop, or in its last child, a
\* text run.
EndOfInputInBody(i) ==
    /\ result.kind = "err"
    /\ ~result.fork
    /\ result.at > Len(tokens)
    /\ stack[i].fn = "Closed"
    /\ stack[i].ph = "loop"
    /\ \/ i = Len(stack)
       \/ i = Len(stack) - 1 /\ Top.fn = "Text"

\* C3: when the input ends in the body of a Closed element, the error is
\* "Did not find appropriate closing tag" and cites the opening name,
\* whatever child came last before the end of the input.
C3_EndOfInputCitesOpening ==
    \A i \in DOMAIN stack :
        EndOfInputInBody(i)
            => /\ result.msg = "Did not find appropriate closing tag"
               /\ result.name = stack[i].name

\* A brace group whose first tokens are `#` `if` or `#` `match` is at p.
BlockOpens(p) == IfOpening_peek(p).match \/ MatchOpening_peek(p).match

\* The productions Child::parse chooses among.
ChildProductions ==
    {"Fragment", "Element", "Closed", "SelfClosing", "Mustache", "Comment",
     "Text"}

\* The frame i parses a child chosen by Child::parse: it was called by a
\* loop, and not by the parse_until of the comments that lead a Match block.
ByChild(i) ==
    /\ i > 1
    /\ ~(stack[i - 1].fn = "parse_until" /\ stack[i - 1].item = "Comment")

\* C4: a child that begins with `{#if ..}` or `{#match ..}` is parsed as a
\* Block, never as another production, and no parse fails on a block
\* opening in child position.
C4_BlockChild ==
    /\ \A i \in DOMAIN stack :
           (ByChild(i) /\ BlockOpens(stack[i].from))
               => stack[i].fn \notin ChildProductions
    /\ ~(result.kind = "err" /\ result.by = "Mustache" /\ BlockOpens(result.at))

----------------------------------------------------------------------------
(* Properties of elements: names, children, lookahead.                     *)

\* Well-formed element names, attribute lists and children, as tokens.
Names == {<<"a">>, <<"b">>, <<"a", "::", "b">>}

AttrLists == {<<>>, <<"b">>, <<"b", "=", "s", "{..e}">>}

ChildRuns ==
    Runs({<<"t">>, <<"{e}">>, <<"<", "b", "/", ">">>,
          <<"<", "!", "-", "-", "-", "-", ">">>}, MaxParts)

\* The identifiers of a name.
Segments(n) == SelectSeq(n, IsIdent)

\* <N attrs>children</N> and <N attrs/>.
ClosedInput(n, a, k) ==
    <<"<">> \o n \o a \o <<">">> \o k \o <<"<", "/">> \o n \o <<">">>

SelfClosingInput(n, a) == <<"<">> \o n \o a \o <<"/", ">">>

ClosedInputs ==
    {ClosedInput(n, a, k) : n \in Names, a \in AttrLists, k \in ChildRuns}

SelfClosingInputs == {SelfClosingInput(n, a) : n \in Names, a \in AttrLists}

\* The tokens start with the opening tag <N attrs, before `>` or `/`.
OpensWith(n, a) ==
    /\ Len(tokens) > Len(n) + Len(a) + 1
    /\ SubSeq(tokens, 1, Len(n) + Len(a) + 1) = <<"<">> \o n \o a
    /\ tokens[Len(n) + Len(a) + 2] \in {">", "/"}

\* The whole input was parsed to one node of the given kind.
WholeInput(kind) ==
    /\ result.kind = "ok"
    /\ root = Kid(kind, 1, Len(tokens) + 1)

\* C5: <N attrs>children</N> parses to a Closed element whose opening and
\* closing names are both the identifiers of N, and <N attrs/> to a
\* SelfClosing element of that name without children; neither parse fails
\* or stalls.
C5_WellFormedElements ==
    (entry \in {"Root", "Element"}
        /\ tokens \in ClosedInputs \cup SelfClosingInputs)
    => /\ result.kind \in {"none", "ok"}
       /\ \A i \in DOMAIN stack : Idle(stack[i].kids) = {}
       /\ result.kind = "ok"
          => \A n \in Names, a \in AttrLists :
                 OpensWith(n, a)
                 => IF tokens \in ClosedInputs
                    THEN /\ WholeInput("Closed")
                         /\ \E e \in nodes :
                               /\ e.kind = "Closed"
                               /\ e.from = 1 /\ e.to = Len(tokens) + 1
                               /\ e.open = Segments(n)
                               /\ e.close = Segments(n)
                    ELSE /\ WholeInput("SelfClosing")
                         /\ \E e \in nodes :
                               /\ e.kind = "SelfClosing"
                               /\ e.from = 1 /\ e.to = Len(tokens) + 1
                               /\ e.open = Segments(n)
                               /\ e.kids = <<>>

\* A Closed element with a path name, attributes and two children was
\* parsed.
C5_Witness ==
    /\ tokens \in ClosedInputs
    /\ WholeInput("Closed")
    /\ \E e \in nodes :
          e.kind = "Closed" /\ e.from = 1 /\ Len(e.open) = 2 /\ Len(e.kids) >= 2

\* A SelfClosing element with a path name and an attribute was parsed.
C5_WitnessSelfClosing ==
    /\ tokens \in SelfClosingInputs
    /\ WholeInput("SelfClosing")
    /\ \E e \in nodes : e.kind = "SelfClosing" /\ Len(e.open) = 2

\* The tokens of each child of the list precede those of the next.
InSourceOrder(kids) ==
    /\ \A i \in DOMAIN kids : kids[i].from <= kids[i].to
    /\ \A i \in 1..(Len(kids) - 1) : kids[i].to <= kids[i + 1].from

\* C6: at every level (Closed element, Fragment, the body of a block and
\* each of its divider regions) the children are in source order: the
\* tokens of the i-th child all precede those of the (i+1)-th.
C6_ChildrenInSourceOrder ==
    \A n \in nodes :
        /\ InSourceOrder(n.kids)
        /\ \A i \in DOMAIN n.divs : InSourceOrder(n.divs[i].kids)

\* An element and a divider region of a block, each with children of
\* different places, were parsed.
C6_Witness ==
    /\ result.kind = "ok"
    /\ \E n \in nodes :
          \E i \in DOMAIN n.divs :
              /\ Len(n.divs[i].kids) >= 2
              /\ n.divs[i].kids[1].to > n.divs[i].kids[1].from

C6_WitnessElement ==
    /\ result.kind = "ok"
    /\ \E n \in nodes :
          n.kind = "Closed" /\ Len(n.kids) >= 3 /\ n.kids[1].to > n.kids[1].from

\* C7: a failure of a sub-parse on a fork is never what the parser returns:
\* every error (and every panic) comes from a parse on the real cursor.
C7_NoForkFailureReturned ==
    result.kind \in {"err", "panic"} => ~result.fork

\* The step about to be taken is a lookahead: a dispatch or a check that
\* only peeks or parses on a fork (Child::parse, Element::parse, the
\* closing-tag check of ClosedElement::parse, Block::parse and the
\* predicates of parse_until and parse_divided_until).
Lookahead ==
    /\ result.kind = "none"
    /\ stack # <<>>
    /\ \/ Top.fn \in {"Child", "Element", "Block", "parse_until"}
       \/ Top.fn = "Closed" /\ Top.ph = "loop" /\ ~IsEmpty(pos)
       \/ Top.fn = "parse_divided_until" /\ Top.ph = "loop"

\* C8: every lookahead, whether it matches or not, leaves the real cursor
\* where it was, and the production it chooses starts there.
C8_LookaheadKeepsCursor ==
    [][Lookahead
          => /\ pos' = pos
             /\ (Len(stack') >= Len(stack) /\ stack'[Len(stack')].ph = "start")
                    => stack'[Len(stack')].from = pos]_vars

\* In the body of an element, after a first child, the closing-tag check
\* has failed and Comment::peek has matched: the comment chosen starts at
\* the cursor, which is where it was.
C8_Witness ==
    /\ result.kind = "none"
    /\ Len(stack) >= 2
    /\ Top.ph = "start"
    /\ Top.from = pos
    /\ Top.fn = "Comment"
    /\ stack[Len(stack) - 1].fn = "Closed"
    /\ stack[Len(stack) - 1].kids # <<>>

\* The kind of divider a token is.
DividerKind(t) ==
    IF t = "{:else if e}" THEN "ElseIf"
    ELSE IF t = "{:else}" THEN "Else"
    ELSE ""

\* The children of a list are the tokens from a up to b, in order, with
\* nothing between them.
Tiles(kids, a, b) ==
    IF kids = <<>> THEN a = b
    ELSE /\ kids[1].from = a
         /\ kids[Len(kids)].to = b
         /\ \A i \in 1..(Len(kids) - 1) : kids[i].to = kids[i + 1].from

\* Where the region of the i-th divider of the block n ends: at the next
\* divider, or at the closing.
RegionEnd(n, i) ==
    IF i < Len(n.divs) THEN n.divs[i + 1].div.from ELSE n.to - 1

\* C9: the dividers of an If block are all its `{:else if ..}` and `{:else}`
\* tokens, in source order, each of its kind (ElseIf, Else) and each paired
\* with the children between it and the next divider or `{/if}`; the
\* children of the block are those before the first divider.
C9_DividersInSourceOrder ==
    \A n \in nodes :
        n.kind = "IfBlock"
        => /\ Tiles(n.kids, n.from + 1, RegionEnd(n, 0))
           /\ \A i \in DOMAIN n.divs :
                 /\ n.divs[i].div.to = n.divs[i].div.from + 1
                 /\ n.divs[i].div.kind = DividerKind(At(n.divs[i].div.from))
                 /\ n.divs[i].div.kind # ""
                 /\ Tiles(n.divs[i].kids, n.divs[i].div.to, RegionEnd(n, i))
           /\ {p \in (n.from + 1)..(n.to - 2) : DividerKind(At(p)) # ""}
                  = {n.divs[i].div.from : i \in DOMAIN n.divs}

\* {#if e} B1 {:else if e} B2 {:else} B3 {/if} was parsed to the dividers
\* (ElseIf, B2), (Else, B3), with B1, B2 and B3 one child each.
C9_Witness ==
    /\ WholeInput("IfBlock")
    /\ \E n \in nodes :
          /\ n.kind = "IfBlock" /\ n.from = 1
          /\ Len(n.kids) = 1
          /\ Len(n.divs) = 2
          /\ n.divs[1].div.kind = "ElseIf" /\ Len(n.divs[1].kids) = 1
          /\ n.divs[2].div.kind = "Else" /\ Len(n.divs[2].kids) = 1
          /\ n.divs[1].kids[1].from < n.divs[2].kids[1].from

\* C10: a parsed If block has at most one Else divider, and an Else divider
\* is the last divider of its block.
C10_ElseOnceAndLast ==
    \A n \in nodes :
        n.kind = "IfBlock"
        => \A i \in DOMAIN n.divs :
               n.divs[i].div.kind = "Else" => i = Len(n.divs)

----------------------------------------------------------------------------
(* Properties of Match blocks and of the dispatchers.                      *)

\* What the tokens of a `{:case ..}` group say about its guard: "Case" (no
\* guard) when nothing follows the pattern, "CaseIf" when `if` and a
\* condition follow it, "" for anything else.
CaseKind(t) ==
    IF In(Inner(t), 1) = ":" /\ In(Inner(t), 2) = "case"
    THEN IF Len(Inner(t)) = 3 THEN "Case"
         ELSE IF In(Inner(t), 4) = "if" /\ Len(Inner(t)) = 5 THEN "CaseIf"
         ELSE ""
    ELSE ""

\* The `{:case ..}` groups between the opening and the closing of n.
CaseTokens(n) ==
    {p \in (n.from + 1)..(n.to - 2) :
        In(Inner(At(p)), 1) = ":" /\ In(Inner(At(p)), 2) = "case"}

\* C11: the cases of a Match block are all its `{:case ..}` dividers, in
\* source order, each paired with the children between it and the next case
\* or `{/match}`; the guard of a case is None exactly when nothing follows
\* its pattern and Some when `if cond` follows it.
C11_CasesInSourceOrder ==
    \A n \in nodes :
        n.kind = "MatchBlock"
        => /\ \A i \in DOMAIN n.divs :
                 /\ n.divs[i].div.to = n.divs[i].div.from + 1
                 /\ n.divs[i].div.kind = CaseKind(At(n.divs[i].div.from))
                 /\ n.divs[i].div.kind \in {"Case", "CaseIf"}
                 /\ Tiles(n.divs[i].kids, n.divs[i].div.to, RegionEnd(n, i))
           /\ CaseTokens(n) = {n.divs[i].div.from : i \in DOMAIN n.divs}

\* A Match block of a case without guard and a case with a guard, each with
\* a child, was parsed.
C11_Witness ==
    /\ WholeInput("MatchBlock")
    /\ \E n \in nodes :
          /\ n.kind = "MatchBlock" /\ n.from = 1
          /\ Len(n.divs) = 2
          /\ n.divs[1].div.kind = "Case" /\ Len(n.divs[1].kids) = 1
          /\ n.divs[2].div.kind = "CaseIf" /\ Len(n.divs[2].kids) = 1

\* The position after the comments that start at p.
RECURSIVE SkipComments(_)
SkipComments(p) ==
    IF p + 7 <= Len(tokens) /\ SubSeq(tokens, p, p + 7) = Comment1
    THEN SkipComments(p + 8)
    ELSE p

\* The input is a Match block in which, after the comments that follow
\* `{#match e}`, something comes that is neither a case nor `{/match}`: a
\* text, an element, a fragment or an interpolation.
OtherChildLeads ==
    /\ entry \in {"MatchBlock", "Block"}
    /\ At(1) = "{#match e}"
    /\ SkipComments(2) <= Len(tokens)
    /\ In(Inner(At(SkipComments(2))), 1) \notin {":", "/"}

\* C12: between `{#match expr}` and the first case (or `{/match}`) only
\* comments are accepted: with any other child there the parse fails with an
\* error (it neither succeeds nor stalls), and the leading children of a
\* parsed Match block are exactly the comments there, in source order.
C12_OnlyCommentsLead ==
    /\ OtherChildLeads
       => /\ result.kind \in {"none", "err"}
          /\ \A n \in nodes : n.kind # "MatchBlock"
          /\ \A i \in DOMAIN stack : Idle(stack[i].kids) = {}
    /\ \A n \in nodes :
          (n.kind = "MatchBlock" /\ n.from = 1)
          => /\ Tiles(n.kids, 2, SkipComments(2))
             /\ \A k \in DOMAIN n.kids :
                   /\ n.kids[k].kind = "Comment"
                   /\ n.kids[k].from = 2 + 8 * (k - 1)
                   /\ n.kids[k].to = n.kids[k].from + 8

\* A Match block with a text after a leading comment failed in
\* Comment::parse at the text, the comment already parsed.
C12_Witness ==
    /\ OtherChildLeads
    /\ result.kind = "err"
    /\ result.by = "Comment"
    /\ At(result.at) = "t"
    /\ Len(stack) = 3
    /\ stack[2].fn = "parse_until"
    /\ Len(stack[2].kids) = 1

\* A Match block with two leading comments was parsed.
C12_WitnessComments ==
    /\ WholeInput("MatchBlock")
    /\ \E n \in nodes : n.kind = "MatchBlock" /\ Len(n.kids) = 2

\* The first tokens inside the group the input of Block::parse starts with.
BlockKeyword == <<In(Inner(At(1)), 1), In(Inner(At(1)), 2)>>

\* C13: Block::parse goes on as IfBlock::parse on `{#if ..}` and as
\* MatchBlock::parse on `{#match ..}`; on a group that opens with any other
\* `#keyword` it aborts (a panic): it returns neither a block nor an error.
C13_BlockParse ==
    entry = "Block"
    => /\ BlockKeyword = <<"#", "if">>
          => /\ stack # <<>> => stack[1].fn \in {"Block", "IfBlock"}
             /\ result.kind # "panic"
             /\ result.kind = "ok" => root.kind = "IfBlock"
       /\ BlockKeyword = <<"#", "match">>
          => /\ stack # <<>> => stack[1].fn \in {"Block", "MatchBlock"}
             /\ result.kind # "panic"
             /\ result.kind = "ok" => root.kind = "MatchBlock"
       /\ (BlockKeyword[1] = "#" /\ BlockKeyword[2] \notin {"if", "match"})
          => /\ result.kind \in {"none", "panic"}
             /\ stack = <<Frame("Block", 1)>>
             /\ nodes = {}

\* Block::parse has aborted on `{#for e}`.
C13_Witness ==
    /\ entry = "Block"
    /\ At(1) = "{#for e}"
    /\ result.kind = "panic"
    /\ result.by = "Block"

\* Block::parse has given a Match block.
C13_WitnessMatch ==
    /\ entry = "Block"
    /\ WholeInput("MatchBlock")

\* The kind of child the tokens at p ask for, first match winning.
ExpectedChild(p) ==
    IF At(p) = "<" /\ At(p + 1) = ">" THEN "Fragment"
    ELSE IF At(p) = "<" /\ IsIdent(At(p + 1)) THEN "Element"
    ELSE IF IsBrace(At(p)) THEN "Mustache"
    ELSE IF At(p) = "<" /\ At(p + 1) = "!" /\ At(p + 2) = "-" /\ At(p + 3) = "-"
    THEN "Comment"
    ELSE "Text"

\* Element::parse goes on as ClosedElement or SelfClosingElement.
ChildKind(fn) == IF fn \in {"Closed", "SelfClosing"} THEN "Element" ELSE fn

\* The frames whose children are chosen by Child::parse.
ChildLoops ==
    {i \in DOMAIN stack :
        \/ stack[i].fn \in {"Closed", "Fragment"}
        \/ stack[i].fn = "parse_until" /\ stack[i].item = "Child"}

\* C14: where no block opens, Child::parse chooses Fragment on `<` `>`,
\* Element on `<` identifier, Interpolation on a brace group, Comment on
\* `<` `!` `-` `-` and Text on anything else, and never another kind: this
\* holds of the production it calls and of every child it returns.
C14_ChildDispatch ==
    /\ \A i \in DOMAIN stack :
           (ByChild(i) /\ stack[i].fn \in ChildProductions
                /\ ~BlockOpens(stack[i].from))
               => ChildKind(stack[i].fn) = ExpectedChild(stack[i].from)
    /\ \A i \in ChildLoops :
           \A k \in DOMAIN stack[i].kids :
               ~BlockOpens(stack[i].kids[k].from)
                   => ChildKind(stack[i].kids[k].kind)
                          = ExpectedChild(stack[i].kids[k].from)

\* In a child loop a text and an interpolation have been parsed and
\* Comment::parse is called for the next child.
C14_Witness ==
    /\ result.kind = "none"
    /\ Len(stack) >= 2
    /\ Top.fn = "Comment"
    /\ Len(stack) - 1 \in ChildLoops
    /\ \E j, k \in DOMAIN stack[Len(stack) - 1].kids :
          /\ stack[Len(stack) - 1].kids[j].kind = "Text"
          /\ stack[Len(stack) - 1].kids[k].kind = "Mustache"

----------------------------------------------------------------------------
(* Properties of the format spec.                                          *)

\* Numbers::parse is about to run on the token at the cursor.
AtNumbers == Running("Formatting") /\ Top.ph = "Numbers"

\* The precision written after the token at the cursor cannot be parsed.
BadPrecisionAfter(i) == Tok(tokens, i) = <<".">> /\ ~Precision(tokens, i + 1).ok

\* An integer literal written with decimal digits only.
IsDigits(t) == t # <<>> /\ \A k \in DOMAIN t : t[k] \in Digits

FloatWidth(t) == SubSeq(t, 1, DotAt(t) - 1)
FloatFraction(t) == SubSeq(t, DotAt(t) + 1, Len(t))

\* The precision written at index i: `*`, an integer, or `name$`; the
\* empty sequence when none is.
PrecisionAt(i) ==
    IF Tok(tokens, i) = <<"*">> THEN <<"Star">>
    ELSE IF IsLitInt(Tok(tokens, i)) THEN <<"Integer">> \o Tok(tokens, i)
    ELSE IF IsFormatIdent(Tok(tokens, i)) /\ Tok(tokens, i + 1) = <<"$">>
    THEN <<"Parameter">> \o Tok(tokens, i)
    ELSE <<>>

\* The precision a float literal at the cursor stands for: its fractional
\* digits, or what is written after it when it has none.
FloatPrecision ==
    IF FloatFraction(Tok(tokens, pos)) # <<>>
    THEN <<"Integer">> \o FloatFraction(Tok(tokens, pos))
    ELSE PrecisionAt(pos + 1)

\* C16 as stated: a float literal `W.F` with non-empty F always yields the
\* width W and the precision Count(F); with empty F the precision is the one
\* written after the literal, and the parse fails when none is.
C16_FloatLiteral ==
    [][(AtNumbers /\ IsLitFloat(Tok(tokens, pos)))
          => IF FloatFraction(Tok(tokens, pos)) # <<>>
             THEN /\ result'.kind # "err"
                  /\ root'.width = FloatWidth(Tok(tokens, pos))
                  /\ root'.precision = FloatPrecision
             ELSE /\ FloatPrecision = <<>> => result'.kind = "err"
                  /\ result'.kind # "err"
                        => root'.precision = FloatPrecision]_vars

\* C16, W taken as an integer literal is: a float literal `W.F` fails when
\* W has two or more leading zeros, or when F is empty and no precision is
\* written after the literal; otherwise the precision is Count(F), or the
\* one written after the literal when F is empty, and W gives the width as
\* an integer literal does: one leading zero is the zero flag and the rest
\* the width, no leading zero the width W and no flag.
C16_FloatLiteralZeros ==
    [][(AtNumbers /\ IsLitFloat(Tok(tokens, pos)))
          => LET W == FloatWidth(Tok(tokens, pos))
             IN  IF \/ FloatPrecision = <<>>
                    \/ Len(W) > 1 /\ W[1] = "0" /\ W[2] = "0"
                 THEN result'.kind = "err"
                 ELSE /\ result'.kind # "err"
                      /\ root'.precision = FloatPrecision
                      /\ IF Len(W) > 1 /\ W[1] = "0"
                         THEN root'.zero /\ root'.width = Tail(W)
                         ELSE ~root'.zero /\ root'.width = W]_vars

\* `06.` `*` has been parsed: the zero flag, the width 6, the precision *.
C16_Witness ==
    /\ result.kind = "ok"
    /\ tokens = <<<<"0", "6", ".">>, <<"*">>>>
    /\ root.zero
    /\ root.width = <<"6">>
    /\ root.precision = <<"Star">>

\* The parse of the whole format spec is over.
FormatDone == entry = "Formatting" /\ result.kind # "none"

\* C17: a format spec that is `.` and a precision, with no width, parses
\* with that precision and no width (`.*` Star, `.5` the count 5, `.x$`
\* the parameter x), and `.` integer `$` is rejected.
C17_PrecisionOnly ==
    FormatDone =>
        /\ (/\ Tok(tokens, 1) = <<".">>
            /\ PrecisionAt(2) # <<>>
            /\ Len(tokens) = IF PrecisionAt(2)[1] = "Parameter" THEN 3 ELSE 2)
               => /\ result.kind = "ok"
                  /\ root.precision = PrecisionAt(2)
                  /\ root.width = <<>>
        /\ (/\ Len(tokens) = 3
            /\ Tok(tokens, 1) = <<".">>
            /\ IsLitInt(Tok(tokens, 2))
            /\ Tok(tokens, 3) = <<"$">>)
               => result.kind = "err"

\* FormatType::parse is about to run on the tokens at the cursor.
AtType == Running("Formatting") /\ Top.ph = "FormatType"

\* FormatType::parse returns the type t.
TypeIs(t) == result'.kind # "err" /\ root'.type = t

\* C18: with nothing left the type is Display; `?` gives Debug; an
\* identifier followed by `?` gives DebugLowerHex for `x`, DebugUpperHex for
\* `X` and is an error for any other identifier; an identifier not
\* followed by `?` gives Other(identifier).
C18_TypeResolution ==
    [][AtType
          => /\ IsEmpty(pos) => TypeIs(<<"Display">>)
             /\ Tok(tokens, pos) = <<"?">> => TypeIs(<<"Debug">>)
             /\ (IsFormatIdent(Tok(tokens, pos))
                     /\ Tok(tokens, pos + 1) = <<"?">>)
                    => IF Tok(tokens, pos) = <<"x">>
                       THEN TypeIs(<<"DebugLowerHex">>)
                       ELSE IF Tok(tokens, pos) = <<"X">>
                       THEN TypeIs(<<"DebugUpperHex">>)
                       ELSE /\ result'.kind = "err"
                            /\ result'.msg = "Expected either x or X here!"
             /\ (IsFormatIdent(Tok(tokens, pos))
                     /\ Tok(tokens, pos + 1) # <<"?">>)
                    => TypeIs(<<"Other">> \o Tok(tokens, pos))]_vars

\* `5x?` has been parsed: the type is DebugLowerHex.
C18_Witness ==
    /\ result.kind = "ok"
    /\ tokens = <<<<"5">>, <<"x">>, <<"?">>>>
    /\ root.type = <<"DebugLowerHex">>

\* The tokens left for the type field, written one after the other.
Remainder == Flatten(SubSeq(tokens, pos, Len(tokens)))

\* C19: when the tokens left for the type are not empty and are neither
\* `?` nor an identifier followed by `?`, FormatType::parse does not fail
\* and the type is Other of those tokens as they are written.
C19_OtherRemainder ==
    [][(/\ AtType
        /\ ~IsEmpty(pos)
        /\ Tok(tokens, pos) # <<"?">>
        /\ ~(IsFormatIdent(Tok(tokens, pos)) /\ Tok(tokens, pos + 1) = <<"?">>))
          => TypeIs(<<"Other">> \o Remainder)]_vars

\* The ways of writing each field with the tokens of the inputs; the empty
\* sequence is the field left out.
AlignForms ==
    LET dirs == {<<"<">>, <<"^">>, <<">">>}
    IN  {<<>>} \cup {<<d>> : d \in dirs}
               \cup {<<<<"'", "0", "'">>, d>> : d \in dirs}

SignForms == {<<>>, <<<<"+">>>>, <<<<"-">>>>}

PrettyForms == {<<>>, <<<<"#">>>>}

PrecisionForms ==
    {<<<<"*">>>>}
        \cup {<<n>> : n \in {<<"0">>, <<"5">>, <<"0", "5">>, <<"0", "0", "5">>,
                              <<"0", "x", "5">>, <<"0", "_", "5">>}}
        \cup {<<n, <<"$">>>> : n \in FormatIdents}

NumbersForms ==
    LET ints == {<<"0">>, <<"5">>, <<"0", "5">>}
        floats == {<<"6", ".", "5">>, <<"0", "6", ".", "5">>}
        dotted == {<<"6", ".">>, <<"0", "6", ".">>}
    IN  {<<>>} \cup {<<n>> : n \in ints \cup floats}
               \cup {<<n, <<".">>>> \o p : n \in ints, p \in PrecisionForms}
               \cup {<<n>> \o p : n \in dotted, p \in PrecisionForms}

TypeForms ==
    {<<>>, <<<<"?">>>>, <<<<"x">>, <<"?">>>>, <<<<"X">>, <<"?">>>>}
        \cup {<<n>> : n \in FormatIdents}

\* The format specs whose fields stand in the order Align, Sign, Pretty,
\* Numbers, Type, each at most once.
OrderedFormats ==
    {a \o g \o p \o n \o t :
        a \in AlignForms, g \in SignForms, p \in PrettyForms,
        n \in NumbersForms, t \in TypeForms}

\* C20: a token sequence is accepted as a format spec only if its fields
\* stand in the order Align, Sign, Pretty, Numbers, Type, each at most
\* once: a sequence with a field after a later one is rejected.
C20_FixedOrder ==
    (FormatDone /\ result.kind = "ok") => tokens \in OrderedFormats

\* `5#?`, a number before Pretty, has been rejected.
C20_Witness ==
    /\ FormatDone
    /\ tokens = <<<<"5">>, <<"#">>, <<"?">>>>
    /\ tokens \notin OrderedFormats
    /\ result.kind = "err"

\* C21: for every valid combination of fields, the tokens written from it
\* parse, and parse to the same fields.
C21_RoundTrip ==
    (entry = "RoundTrip" /\ result.kind # "none")
        => result.kind = "ok" /\ nodes = {root}

----------------------------------------------------------------------------
(* Properties of elements, comments and texts.                             *)

\* The loop of ClosedElement::parse is at `<` `/` and a path.
ClosingCandidate ==
    /\ Running("Closed")
    /\ Top.ph = "loop"
    /\ At(pos) = "<" /\ At(pos + 1) = "/" /\ IsIdent(At(pos + 2))
    /\ ElementName(pos + 2).ok

\* The two paths hold the same identifier at every position both have.
AgreeWhereShared(a, b) ==
    \A k \in DOMAIN a \cap DOMAIN b : a[k] = b[k]

\* C22: a closing tag is taken as the closing tag of the element exactly
\* when its path and the opening name agree at every position both have,
\* whatever their lengths; and so do the two names of every Closed element.
C22_ClosingByZip ==
    [][/\ ClosingCandidate
            => ((stack'[Len(stack')].fn = "Closed"
                    /\ stack'[Len(stack')].ph = "closing")
                <=> AgreeWhereShared(ElementName(pos + 2).segs, Top.name))
       /\ \A n \in nodes' :
              n.kind = "Closed" => AgreeWhereShared(n.open, n.close)]_vars

\* An element opened as `a::b` and closed as `a`.
C22_Witness ==
    /\ result.kind = "ok"
    /\ \E n \in nodes :
          /\ n.kind = "Closed"
          /\ n.open = <<"a", "b">>
          /\ n.close = <<"a">>

\* The first `>` or `/` at or after p (names and attributes hold neither),
\* or the end of the input.
RECURSIVE FirstStop(_)
FirstStop(p) ==
    IF IsEmpty(p) \/ At(p) \in {">", "/"} THEN p ELSE FirstStop(p + 1)

\* C23: when Element::parse goes on, it is with SelfClosingElement exactly
\* when `/` follows the name and the attributes and with ClosedElement
\* exactly when `>` does, the cursor is where it was and the production
\* chosen starts there; a SelfClosing element ends with `/` `>` right
\* after its attributes, and an element returned starts where
\* Element::parse was called and leaves the cursor at its end.
C23_ElementDecision ==
    [][/\ (Running("Element") /\ result'.kind = "none")
            => /\ pos' = pos
               /\ stack'[Len(stack')].from = pos
               /\ At(FirstStop(pos)) \in {"/", ">"}
               /\ stack'[Len(stack')].fn
                      = IF At(FirstStop(pos)) = "/" THEN "SelfClosing"
                        ELSE "Closed"
       /\ \A n \in nodes' :
              n.kind = "SelfClosing"
                  => /\ n.to = FirstStop(n.from) + 2
                     /\ At(n.to - 2) = "/"
                     /\ At(n.to - 1) = ">"
       /\ (Running("SelfClosing") \/ Running("Closed"))
              /\ result'.kind = "none" /\ Len(stack') < Len(stack)
            => pos' \in {n.to : n \in {m \in nodes' : m.from = Top.from
                                                      /\ m.kind = Top.fn}}]_vars

\* `<a::b b/>` has been parsed as a SelfClosing element.
C23_Witness ==
    /\ result.kind = "ok"
    /\ \E n \in nodes :
          /\ n.kind = "SelfClosing"
          /\ n.to - n.from = 7

\* The first position at or after p where `-` `-` `>` is next; 0 when the
\* input ends before one.
RECURSIVE FirstClose(_)
FirstClose(p) ==
    IF IsEmpty(p) THEN 0
    ELSE IF At(p) = "-" /\ At(p + 1) = "-" /\ At(p + 2) = ">" THEN p
    ELSE FirstClose(p + 1)

\* Comment::parse is about to run on `<` `!` `-` `-`.
AtComment ==
    /\ Running("Comment")
    /\ At(pos) = "<" /\ At(pos + 1) = "!" /\ At(pos + 2) = "-"
    /\ At(pos + 3) = "-"

\* C24: after `<!--` the comment takes every token, `<`, `>` and markup
\* included, up to the first `-` `-` `>`, and that `-` `-` `>` too; when the
\* input ends before one, the parse fails.
C24_CommentContents ==
    [][AtComment
          => IF FirstClose(pos + 4) = 0
             THEN result'.kind = "err"
             ELSE /\ result'.kind = "none"
                  /\ pos' = FirstClose(pos + 4) + 3]_vars

\* A comment holding a whole element has been parsed.
C24_Witness ==
    /\ result.kind = "ok"
    /\ \E n \in nodes :
          \E k \in DOMAIN n.kids :
              /\ n.kids[k].kind = "Comment"
              /\ n.kids[k].to - n.kids[k].from = 11
              /\ At(n.kids[k].from + 4) = "<"
              /\ At(n.kids[k].from + 7) = ">"

\* The children sequences of the nodes parsed: those of elements,
\* fragments and blocks, and those that follow a divider.
ChildLists ==
    {n.kids : n \in nodes}
        \cup UNION {{n.divs[j].kids : j \in DOMAIN n.divs} : n \in nodes}

\* C25: in the result of a successful parse every Text child holds at
\* least one token, none of its tokens is `<`, `>` or a brace group, and no
\* Text child is followed by another Text child.
C25_TextChildren ==
    result.kind = "ok"
        => \A kids \in ChildLists :
               \A k \in DOMAIN kids :
                   kids[k].kind = "Text"
                       => /\ kids[k].to > kids[k].from
                          /\ \A q \in kids[k].from..(kids[k].to - 1) :
                                 At(q) \notin {"<", ">"} /\ ~IsBrace(At(q))
                          /\ k < Len(kids) => kids[k + 1].kind # "Text"

\* A Text of two tokens, followed by an element, in a successful parse.
C25_Witness ==
    /\ result.kind = "ok"
    /\ \E kids \in ChildLists :
          \E k \in DOMAIN kids :
              /\ kids[k].kind = "Text"
              /\ kids[k].to - kids[k].from = 2
              /\ k < Len(kids)
              /\ kids[k + 1].kind = "SelfClosing"

----------------------------------------------------------------------------
(* Properties of the token ranges.                                         *)

\* The last `<` before q.
RECURSIVE LastLt(_)
LastLt(q) == IF q <= 1 \/ At(q - 1) = "<" THEN q - 1 ELSE LastLt(q - 1)

\* Where the opening of the node n ends: after the `>` that follows the
\* name and attributes, after `<` `>`, after the `{#..}` group.
OpeningEnd(n) ==
    IF n.kind = "Closed" THEN FirstStop(n.from) + 1
    ELSE IF n.kind = "Fragment" THEN n.from + 2
    ELSE n.from + 1

\* Where the closing of the node n starts: `<` `/` name `>`, `<` `/` `>`,
\* the `{/..}` group.
ClosingStart(n) ==
    IF n.kind = "Closed" THEN LastLt(n.to)
    ELSE IF n.kind = "Fragment" THEN n.to - 3
    ELSE n.to - 1

\* Where the children after the i-th divider of n end (those before the
\* first divider for i = 0): at the next divider, or at the closing.
CoverEnd(n, i) ==
    IF i < Len(n.divs) THEN n.divs[i + 1].div.from ELSE ClosingStart(n)

\* The opening, the children, the dividers with their children and the
\* closing of n are its tokens, each once and in order.
Covered(n) ==
    /\ n.from < OpeningEnd(n)
    /\ OpeningEnd(n) <= ClosingStart(n)
    /\ ClosingStart(n) < n.to
    /\ Tiles(n.kids, OpeningEnd(n), CoverEnd(n, 0))
    /\ \A i \in DOMAIN n.divs :
          /\ n.divs[i].div.from < n.divs[i].div.to
          /\ Tiles(n.divs[i].kids, n.divs[i].div.to, CoverEnd(n, i))

\* C26: the tokens of every Closed element, Fragment, If block and Match
\* block parsed are those of its opening, its children, its dividers and
\* its closing, contiguous and each once; the cursor never goes back, and
\* stands at the end of a node when the node is returned.
C26_TokenCoverage ==
    [][/\ pos' >= pos
       /\ \A n \in nodes' :
              n.kind \in {"Closed", "Fragment", "IfBlock", "MatchBlock"}
                  => Covered(n)
       /\ \A n \in nodes' \ nodes : pos' = n.to]_vars

\* An If block whose body and whose divider each hold children, one of
\* them an element, has been parsed.
C26_Witness ==
    /\ result.kind = "ok"
    /\ \E n \in nodes :
          /\ n.kind = "IfBlock"
          /\ Len(n.kids) >= 1
          /\ Len(n.divs) >= 1
          /\ Len(n.divs[1].kids) >= 2
          /\ n.divs[1].kids[2].kind = "SelfClosing"

----------------------------------------------------------------------------
(* C27, C28: the zero-pad flag and the width.                              *)

\* C27: in every successfully parsed format spec a zero-pad flag comes with
\* a width of at least one digit, and the single literal `0` gives the
\* width 0 without the flag.
C27_ZeroHasWidth ==
    (FormatDone /\ result.kind = "ok")
        => /\ root.zero => Len(root.width) >= 1
           /\ (\E i \in DOMAIN tokens :
                   /\ tokens[i] = <<"0">>
                   /\ \A j \in 1..(i - 1) : ~IsLitInt(tokens[j])
                   /\ \A j \in 1..(i - 1) : ~IsLitFloat(tokens[j])
                   /\ \A j \in 1..(i - 1) : tokens[j] # <<".">>)
                  => ~root.zero /\ root.width = <<"0">>

\* A zero-pad flag with its width has been parsed.
C27_Witness ==
    /\ FormatDone
    /\ result.kind = "ok"
    /\ root.zero
    /\ root.width = <<"5">>

\* C28: Numbers parse never aborts on an integer literal.
C28_NeverAborts ==
    entry = "Formatting" => result.kind # "panic"

----------------------------------------------------------------------------
(* C29: the divider parser is called where a divider stands.               *)

\* parse_divided_until is about to parse a divider.
AtDivider ==
    /\ Running("parse_divided_until")
    /\ Top.ph = "divider"

\* C29: inside IfBlock parse and MatchBlock parse the divider parser is
\* called only where the divider peek holds; the ElseDivider and
\* ElseIfDivider peeks never hold together, and IfDivider parse never
\* returns its "Expected either" error.
C29_DividerAtPeek ==
    /\ AtDivider => Div_peek(Top.kind, pos).match
    /\ \A p \in 1..Len(tokens) :
          ~(ElseDivider_peek(p).match /\ ElseIfDivider_peek(p).match)
    /\ result.msg # "Expected either {:else if ...}, or {:else} here"

\* An If block is at its second divider, an `{:else}` after an
\* `{:else if ..}`.
C29_Witness ==
    /\ AtDivider
    /\ Top.kind = "If"
    /\ Len(Top.divs) >= 1
    /\ ElseDivider_peek(pos).match

----------------------------------------------------------------------------
(* C30: the last error of Element::parse.                                  *)

\* Element::parse is about to decide, and `<`, the name and the attributes
\* parse on its fork.
AtElement == Running("Element") /\ TagStart(pos).ok

\* C30: whenever the speculative parse of `<`, name and attributes
\* succeeds, the fork stands at `>` or `/`, so Element parse never returns
\* "Expected either opening or self-closing tag here".
C30_NoNeither ==
    /\ AtElement
          => /\ At(TagStart(pos).pos) \in {">", "/"}
             /\ Element_lookahead(pos).res \in {"SelfClosing", "Closed"}
    /\ result.msg # "Expected either opening or self-closing tag here"

\* The fork has parsed a tag with two attributes or more.
C30_Witness ==
    /\ AtElement
    /\ TagStart(pos).pos >= pos + 4

====
